---- MODULE Spec2Model ----
(***************************************************************************)
(* A model of gempakio/decode.py: the GEMPAK header decoder, the row and   *)
(* column header scan, the sub-word unpacking primitive (_unpack_real and  *)
(* _fortran_ishift), the grid payload decoder and the vertical merge of an *)
(* unmerged sounding (_merge_sounding).                                    *)
(*                                                                         *)
(* Each unit of the program has its own variables and its own              *)
(* specification (SpecShift, SpecUnpack, ...); `unit` names the unit a     *)
(* behaviour runs, and the variables of the other units stay idle.         *)
(***************************************************************************)
EXTENDS Integers, Sequences, FiniteSets, TLC

VARIABLES
    unit,           \* which unit of the program this behaviour runs
    \* ---- _fortran_ishift(i, shift)
    sh_i, sh_shift, sh_shifted, sh_pc,
    \* ---- _unpack_real(buffer, parameters, length)
    buffer,         \* the packed words, as struct's 'i' reads them
    parameters,     \* the part's parameter table: name, scale, offset, bits
    length,         \* the declared word count
    pwords, npack,  \* locals of _unpack_real
    unpacked,       \* the output array
    ifields,        \* the raw field (local ifield) behind each output entry
    up_i, idata, itotal,    \* loop variables _i, idata, itotal
    up_pc, up_err,
    \* ---- the row / column header scan of GempakGrid and GempakSounding
    sc_table,       \* the words of the header table, in file order
    sc_slots,       \* prod_desc.rows (or columns): the number of slots
    sc_keys,        \* the number of row (or column) keys
    sc_pos,         \* the buffer's cursor, in words from the table's start
    sc_n,           \* iterations of the scan loop done
    headers,        \* self.row_headers (or column_headers)
    sc_pc,
    \* ---- GempakFile.__init__: the file's header
    hd_file,        \* the bytes of the file the decoder reads
    native,         \* sys.byteorder
    swaped_bytes, endian,   \* set by _swap_bytes
    prod_desc,      \* self.prod_desc, the fields the decoder branches on
    navigation_block, analysis_block,
    hd_reads,       \* the structured reads done so far, in order
    hd_pc, hd_err,
    \* ---- GempakGrid.to_xarray / _unpack_grid: one grid cell
    gr_file,        \* the words of the cell's data block, in file order
    kx, ky,         \* self.kx, self.ky
    header_length,  \* part.header_length
    data_header_length, packing_type,   \* read by to_xarray
    grid,           \* what _unpack_grid returns
    gl,             \* the locals of _unpack_grid: metadata, packed words, loop state
    gr_data, gr_mask,   \* the masked array to_xarray builds
    gr_pc, gr_err,
    \* ---- GempakSounding._merge_sounding(parts)
    parts,          \* the parts of one sounding: part name -> columns
    merged,         \* the profile being built: SELV and the six lists
    lv,             \* the locals of _merge_sounding, by name
    mg_pc, mg_err,
    \* ---- GempakFile._convert_ftime and the valid time of to_xarray
    ft_written,     \* the forecast kind, hours and minutes the writer packed
    ftime,          \* the packed integer read from the column header
    GTM1, GDT1,     \* col_head.GTM1 (decoded) and col_head.GDT1 (minutes)
    valid,          \* valid = init + ftime
    ft_pc, ft_err,
    \* ---- the data pointer of a cell: to_xarray / _unpack_merged
    ce_file,        \* the archive: header tables, counts, data_block_ptr
    method,         \* which of the two loops runs
    row_headers, column_headers,    \* the headers the scans emitted
    cur,            \* the loop indices icol, irow, iprt
    pointer, data_ptr,      \* the word address computed and the word read
    ce_pc,
    \* ---- the parameter table of GempakFile.__init__
    pa_content,     \* the parameters of each part, as the writer had them
    byteorder,      \* sys.byteorder
    twin            \* per byte order: the file written in it and its decode

shiftVars == <<sh_i, sh_shift, sh_shifted, sh_pc>>
unpackVars == <<buffer, parameters, length, pwords, npack, unpacked, ifields,
                up_i, idata, itotal, up_pc, up_err>>

scanVars == <<sc_table, sc_slots, sc_keys, sc_pos, sc_n, headers, sc_pc>>
headerVars == <<hd_file, native, swaped_bytes, endian, prod_desc,
                navigation_block, analysis_block, hd_reads, hd_pc, hd_err>>

gridVars == <<gr_file, kx, ky, header_length, data_header_length, packing_type,
              grid, gl, gr_data, gr_mask, gr_pc, gr_err>>

mergeVars == <<parts, merged, lv, mg_pc, mg_err>>

ftimeVars == <<ft_written, ftime, GTM1, GDT1, valid, ft_pc, ft_err>>

cellsVars == <<ce_file, method, row_headers, column_headers, cur, pointer, data_ptr,
               ce_pc>>

paramsVars == <<pa_content, byteorder, twin>>

vars == <<unit, shiftVars, unpackVars, scanVars, headerVars, gridVars, mergeVars,
          ftimeVars, cellsVars, paramsVars>>

\* the variables of the other units, which an action of a unit leaves alone
notShift == <<unpackVars, scanVars, headerVars, gridVars, mergeVars,
    ftimeVars, cellsVars, paramsVars>>
notUnpack == <<shiftVars, scanVars, headerVars, gridVars, mergeVars,
    ftimeVars, cellsVars, paramsVars>>
notScan == <<shiftVars, unpackVars, headerVars, gridVars, mergeVars,
    ftimeVars, cellsVars, paramsVars>>
notHeader == <<shiftVars, unpackVars, scanVars, gridVars, mergeVars,
    ftimeVars, cellsVars, paramsVars>>
notGrid == <<shiftVars, unpackVars, scanVars, headerVars, mergeVars,
    ftimeVars, cellsVars, paramsVars>>
notMerge == <<shiftVars, unpackVars, scanVars, headerVars, gridVars,
    ftimeVars, cellsVars, paramsVars>>
notFtime == <<shiftVars, unpackVars, scanVars, headerVars, gridVars,
    mergeVars, cellsVars, paramsVars>>
notCells == <<shiftVars, unpackVars, scanVars, headerVars, gridVars,
    mergeVars, ftimeVars, paramsVars>>
notParams == <<shiftVars, unpackVars, scanVars, headerVars, gridVars,
    mergeVars, ftimeVars, cellsVars>>

(***************************************************************************)
(* Program constants.                                                      *)
(***************************************************************************)
ANLB_SIZE == 128
BYTES_PER_WORD == 4
NAVB_SIZE == 256
USED_FLAG == 9999
UNUSED_FLAG == -9999
\* prod_desc.missing_float / missing_int as GEMPAK writes them
MISSING == -9999

WordBits == BYTES_PER_WORD * 8

(***************************************************************************)
(* Python integers.  TLC's integers are 32 bits wide, too narrow for the   *)
(* unsigned pattern 0xffffffff and for i << shift, so a Python int is      *)
(* modelled by its two's-complement digits: the set of the positions of    *)
(* its 1 bits in 0..PyBits-1, position PyBits-1 standing for the infinite  *)
(* run of sign bits.  Every value the modelled code computes lies within   *)
(* -2^(2*WordBits) .. 2^(2*WordBits+1), far inside the width.              *)
(***************************************************************************)
PyBits == 2 * WordBits + 8
BitPos == 0 .. (PyBits - 1)
WordPos == 0 .. (WordBits - 1)

IsNeg(a) == (PyBits - 1) \in a

\* a << s  (Python: exact, no wrap)
PyShl(a, s) == {p + s : p \in {q \in a : q + s <= PyBits - 1}}

\* a >> s  (Python: arithmetic, sign-filling)
PyShr(a, s) ==
    {p - s : p \in {q \in a : q >= s}}
        \cup (IF IsNeg(a) THEN {p \in BitPos : p >= PyBits - s} ELSE {})

PyAnd(a, b) == a \cap b
PyOr(a, b) == a \cup b

\* ctypes.c_int32(a).value: keep the low 32 bits, read them as signed
c_int32(a) ==
    (a \cap WordPos)
        \cup (IF (WordBits - 1) \in a THEN {p \in BitPos : p >= WordBits} ELSE {})

RECURSIVE Pow2(_)
Pow2(n) == IF n = 0 THEN 1 ELSE 2 * Pow2(n - 1)

\* the Python int of a small TLC integer (|n| < 2^30)
PyInt(n) ==
    IF n >= 0
    THEN {p \in 0 .. 30 : (n \div Pow2(p)) % 2 = 1}
    ELSE BitPos \ {p \in 0 .. 30 : ((-n - 1) \div Pow2(p)) % 2 = 1}

RECURSIVE PyAddFrom(_, _, _, _)
PyAddFrom(a, b, p, carry) ==
    IF p = PyBits THEN {}
    ELSE LET s == (IF p \in a THEN 1 ELSE 0) + (IF p \in b THEN 1 ELSE 0) + carry
         IN  (IF s % 2 = 1 THEN {p} ELSE {}) \cup PyAddFrom(a, b, p + 1, s \div 2)

\* a + b
PyAdd(a, b) == PyAddFrom(a, b, 0, 0)

(***************************************************************************)
(* GempakFile._fortran_ishift (decode.py 384-398)                          *)
(***************************************************************************)
mskpat == WordPos       \* 0xffffffff

fortran_ishift_nomask(i, shift) ==
    IF shift > 0 THEN c_int32(PyShl(i, shift))
    ELSE IF shift < 0 THEN PyShr(i, -shift)
    ELSE i

_fortran_ishift(i, shift) ==
    IF shift > 0 THEN c_int32(PyShl(i, shift))
    ELSE IF shift < 0
         THEN IF IsNeg(i) THEN PyShr(PyAnd(i, mskpat), -shift)
                          ELSE PyShr(i, -shift)
    ELSE i

\* 32-bit patterns the checks draw words from
Patterns ==
    { {}, {0}, WordPos, {WordBits - 1}, WordPos \ {WordBits - 1},
      {p \in WordPos : p % 2 = 1},
      {p \in WordPos : p % 8 \in {0, 2, 5, 7}},
      {p \in WordPos : p % 3 = 0} }

\* a word as struct's 'i' reads it (signed)
Signed(pat) == c_int32(pat)

ShiftInputs == {Signed(w) : w \in Patterns} \cup Patterns
ShiftRange == (-WordBits) .. WordBits

IdleShift ==
    /\ sh_i = {}
    /\ sh_shift = 0
    /\ sh_shifted = {}
    /\ sh_pc = "idle"

InitShiftVars ==
    /\ sh_i \in ShiftInputs
    /\ sh_shift \in ShiftRange
    /\ sh_shifted = {}
    /\ sh_pc = "call"

CallShift ==
    /\ unit = "ishift"
    /\ sh_pc = "call"
    /\ sh_shifted' = _fortran_ishift(sh_i, sh_shift)
    /\ sh_pc' = "done"
    /\ UNCHANGED <<unit, sh_i, sh_shift, notShift>>

NextShift == CallShift

(***************************************************************************)
(* GempakFile._unpack_real (decode.py 413-466)                             *)
(***************************************************************************)
RECURSIVE SumSeq(_)
SumSeq(s) == IF s = <<>> THEN 0 ELSE Head(s) + SumSeq(Tail(s))

\* Python's floor division, for a positive divisor
FloorDiv(a, b) == IF a >= 0 THEN a \div b ELSE -((-a + b - 1) \div b)

\* a decoded value: the float m * 10^e; `miss` records that the missing test
\* (ifield == imissc) chose it
Value(m, e) == [miss |-> FALSE, m |-> m, e |-> e]
missing_float == [miss |-> TRUE, m |-> PyInt(MISSING), e |-> 0]

\* np.ones(n) * missing_float: the array as allocated, before the loop
Unset == [miss |-> FALSE, m |-> PyInt(MISSING), e |-> 0]

pwords_floor(parms) == SumSeq(parms.bits) \div 32 + 1

\* line 421
pwords_of(parms) == FloorDiv(SumSeq(parms.bits) - 1, 32) + 1

\* line 422
npack_of(len, pw) == FloorDiv(len - 1, pw) + 1

imissc_short(bits) == _fortran_ishift(mskpat, bits - 31)

\* line 439
imissc_of(bits) == _fortran_ishift(mskpat, bits - 32)

extract_low_only(pdat, total, bits) ==
    LET jsbit == (total % 32) + 1
        jsword == total \div 32
        mask == _fortran_ishift(mskpat, bits - 32)
    IN  PyAnd(_fortran_ishift(pdat[jsword + 1], 1 - jsbit), mask)

\* lines 437-455: the field of `bits` bits at bit offset `total` of the group
\* pdat (a 1-based sequence here; pdat[jsword] in the code is pdat[jsword + 1])
extract_field(pdat, total, bits) ==
    LET isbitc == (total % 32) + 1
        iswrdc == total \div 32
        jbit == bits
        jsbit == isbitc
        jshift == 1 - jsbit
        jsword == iswrdc
        jword == pdat[jsword + 1]
        mask == _fortran_ishift(mskpat, jbit - 32)
        ifield == PyAnd(_fortran_ishift(jword, jshift), mask)
    IN  IF (jsbit + jbit - 1) > 32
        THEN LET jword2 == pdat[jsword + 2]
                 iword == PyAnd(_fortran_ishift(jword2, jshift + 32), mask)
             IN  PyOr(ifield, iword)
        ELSE ifield

\* whether lines 445/451 index pdat inside its pwords words
extract_in_range(pw, total, bits) ==
    LET jsword == total \div 32
    IN  /\ jsword + 1 <= pw
        /\ ((total % 32) + 1 + bits - 1 > 32) => jsword + 2 <= pw

\* lines 457-460
decode_field(ifield, parms, k) ==
    IF ifield = imissc_of(parms.bits[k])
    THEN missing_float
    ELSE Value(PyAdd(ifield, PyInt(parms.offset[k])), parms.scale[k])

\* ---- inputs
MaxParms == 2
MaxWords == 2
UnpackWidths == {1, 20, 32}
UnpackScaleOffset == {<<0, 0>>, <<-1, -5>>}
UnpackWords ==
    {Signed(w) : w \in { WordPos, {p \in WordPos : p % 8 \in {0, 2, 5, 7}},
                         {p \in WordPos : p % 3 = 0} }}

ParamTables ==
    UNION {
        { [name |-> [k \in 1 .. n |-> k],
           scale |-> [k \in 1 .. n |-> so[k][1]],
           offset |-> [k \in 1 .. n |-> so[k][2]],
           bits |-> b] :
            b \in [1 .. n -> UnpackWidths], so \in [1 .. n -> UnpackScaleOffset] }
        : n \in 1 .. MaxParms }

Buffers == UNION {[1 .. n -> UnpackWords] : n \in 0 .. MaxWords}

IdleUnpack ==
    /\ buffer = <<>>
    /\ parameters = <<>>
    /\ length = 0
    /\ pwords = 0
    /\ npack = 0
    /\ unpacked = <<>>
    /\ ifields = <<>>
    /\ up_i = 0
    /\ idata = 0
    /\ itotal = 0
    /\ up_pc = "idle"
    /\ up_err = "none"

\* the callers hand over the lendat words they read and lendat as the length
\* (lines 842-854)
InitUnpackVars ==
    /\ buffer \in Buffers
    /\ parameters \in ParamTables
    /\ length = Len(buffer)
    /\ pwords = 0
    /\ npack = 0
    /\ unpacked = <<>>
    /\ ifields = <<>>
    /\ up_i = 0
    /\ idata = 0
    /\ itotal = 0
    /\ up_pc = "start"
    /\ up_err = "none"

nparms == Len(parameters.name)

\* lines 418-427: the sizes, the allocation and the length test
UnpackStart ==
    /\ unit = "unpack"
    /\ up_pc = "start"
    /\ LET pw == pwords_of(parameters)
           np == npack_of(length, pw)
       IN  /\ pwords' = pw
           /\ npack' = np
           /\ IF np * pw # length
              THEN /\ up_pc' = "error"
                   /\ up_err' = "Unpacking length mismatch."
                   /\ UNCHANGED <<unpacked, ifields>>
              ELSE /\ up_pc' = "loop"
                   /\ up_err' = "none"
                   /\ unpacked' = [k \in 1 .. np * nparms |-> Unset]
                   /\ ifields' = [k \in 1 .. np * nparms |-> {}]
    /\ UNCHANGED <<unit, buffer, parameters, length, up_i, idata, itotal, notUnpack>>

\* lines 429-464: one parameter of one packed group
UnpackField ==
    /\ unit = "unpack"
    /\ up_pc = "loop"
    /\ up_i < npack
    /\ LET ii == up_i * pwords
           ir == up_i * nparms
           pdat == SubSeq(buffer, ii + 1, ii + pwords)
           bits == parameters.bits[idata + 1]
       IN  IF ~extract_in_range(pwords, itotal, bits)
           THEN /\ up_pc' = "error"
                /\ up_err' = "IndexError"
                /\ UNCHANGED <<unpacked, ifields, up_i, idata, itotal>>
           ELSE LET ifield == extract_field(pdat, itotal, bits)
                IN  /\ ifields' = [ifields EXCEPT ![ir + idata + 1] = ifield]
                    /\ unpacked' = [unpacked EXCEPT ![ir + idata + 1] =
                                        decode_field(ifield, parameters, idata + 1)]
                    /\ IF idata + 1 < nparms
                       THEN /\ idata' = idata + 1
                            /\ itotal' = itotal + bits
                            /\ up_i' = up_i
                       ELSE /\ idata' = 0
                            /\ itotal' = 0
                            /\ up_i' = up_i + 1
                    /\ UNCHANGED <<up_pc, up_err>>
    /\ UNCHANGED <<unit, buffer, parameters, length, pwords, npack, notUnpack>>

\* line 466
UnpackReturn ==
    /\ unit = "unpack"
    /\ up_pc = "loop"
    /\ up_i = npack
    /\ up_pc' = "done"
    /\ UNCHANGED <<unit, buffer, parameters, length, pwords, npack, unpacked,
                   ifields, up_i, idata, itotal, up_err, notUnpack>>

NextUnpack == UnpackStart \/ UnpackField \/ UnpackReturn

(***************************************************************************)
(* The row and column header scan (decode.py 485-508, 776-805).            *)
(* The table holds one slot per row (column): a flag word, then one word   *)
(* per key.  The buffer's cursor moves by what is read and by nothing else.*)
(***************************************************************************)
\* IOBuffer.read_int(4, endian, False) == flag: the word read unsigned
read_int_is(word, flag) == word >= 0 /\ word = flag

\* IOBuffer.read_struct of a NamedStruct of n words at the cursor
read_struct(table, pos, n) == SubSeq(table, pos + 1, pos + n)

MaxSlots == 3
MaxKeys == 2

\* the field words of slot s (0-based) as the file's writer filled them
SlotData(s, nkeys) == [k \in 1 .. nkeys |-> 10 * (s + 1) + k]
SlotEmpty(nkeys) == [k \in 1 .. nkeys |-> UNUSED_FLAG]

\* a slot: used, with its data; or unused, blank or with stale data
SlotChoices(s, nkeys) ==
    { <<USED_FLAG>> \o SlotData(s, nkeys),
      <<UNUSED_FLAG>> \o SlotEmpty(nkeys),
      <<UNUSED_FLAG>> \o SlotData(s, nkeys) }

RECURSIVE Tables(_, _, _)
Tables(s, nslots, nkeys) ==
    IF s = nslots THEN {<<>>}
    ELSE {slot \o rest : slot \in SlotChoices(s, nkeys),
                         rest \in Tables(s + 1, nslots, nkeys)}

IdleScan ==
    /\ sc_table = <<>>
    /\ sc_slots = 0
    /\ sc_keys = 0
    /\ sc_pos = 0
    /\ sc_n = 0
    /\ headers = <<>>
    /\ sc_pc = "idle"

\* lines 485-489: the cursor at the table's start, no header yet
InitScanVars ==
    /\ sc_slots \in 1 .. MaxSlots
    /\ sc_keys \in 1 .. MaxKeys
    /\ sc_table \in Tables(0, sc_slots, sc_keys)
    /\ sc_pos = 0
    /\ sc_n = 0
    /\ headers = <<>>
    /\ sc_pc = "scan"

\* lines 490-492 (506-508, 784-786, 803-805): one iteration of the loop
ScanSlot ==
    /\ unit = "scan"
    /\ sc_pc = "scan"
    /\ sc_n < sc_slots
    /\ IF read_int_is(sc_table[sc_pos + 1], USED_FLAG)
       THEN /\ headers' = Append(headers, read_struct(sc_table, sc_pos + 1, sc_keys))
            /\ sc_pos' = sc_pos + 1 + sc_keys
       ELSE /\ headers' = headers
            /\ sc_pos' = sc_pos + 1
    /\ sc_n' = sc_n + 1
    /\ UNCHANGED <<unit, sc_table, sc_slots, sc_keys, sc_pc, notScan>>

\* the loop's end
ScanDone ==
    /\ unit = "scan"
    /\ sc_pc = "scan"
    /\ sc_n = sc_slots
    /\ sc_pc' = "done"
    /\ UNCHANGED <<unit, sc_table, sc_slots, sc_keys, sc_pos, sc_n, headers, notScan>>

NextScan == ScanSlot \/ ScanDone

(***************************************************************************)
(* GempakFile.__init__ and its helpers (decode.py 186-337): the magic       *)
(* text, the byte-order probe, the product description and the optional    *)
(* navigation and analysis blocks.  The file is modelled by its bytes; a   *)
(* word is four bytes in the order the file was written in.                *)
(***************************************************************************)
\* 'GEMPAK DATA MANAGEMENT FILE ' (line 124), as code points
GEMPAK_HEADER ==
    <<71, 69, 77, 80, 65, 75, 32, 68, 65, 84, 65, 32, 77, 65, 78, 65, 71, 69,
      77, 69, 78, 84, 32, 70, 73, 76, 69, 32>>

Orders == {"little", "big"}
OtherOrder(o) == IF o = "little" THEN "big" ELSE "little"

\* the four bytes of the two's-complement word v, least significant first
LittleBytes(v) ==
    [k \in 1 .. 4 |->
        IF v >= 0 THEN (v \div Pow2(8 * (k - 1))) % 256
        ELSE 255 - (((-v - 1) \div Pow2(8 * (k - 1))) % 256)]

Reversed(b) == [k \in 1 .. Len(b) |-> b[Len(b) + 1 - k]]

\* struct.pack(order + 'i', v)
pack_i(v, order) == IF order = "little" THEN LittleBytes(v) ELSE Reversed(LittleBytes(v))

\* struct.unpack(order + 'i', b): a signed word
unpack_i(b, order) ==
    LET l == IF order = "little" THEN b ELSE Reversed(b)
        top == IF l[4] >= 128 THEN l[4] - 256 ELSE l[4]
    IN  top * 16777216 + l[3] * 65536 + l[2] * 256 + l[1]

\* IOBuffer.read_int(4, order, False): an unsigned word, as its top byte and
\* its low 24 bits
read_int(b, order) ==
    LET l == IF order = "little" THEN b ELSE Reversed(b)
    IN  [hi |-> l[4], lo |-> l[3] * 65536 + l[2] * 256 + l[1]]

\* the unsigned word of a constant of the program
U32(c) == [hi |-> c \div 16777216, lo |-> c % 16777216]

\* struct.pack(order + 'f', x) for the floats 0.0 .. 3.0
pack_f(x, order) ==
    LET be == CASE x = 0 -> <<0, 0, 0, 0>>
                [] x = 1 -> <<63, 128, 0, 0>>
                [] x = 2 -> <<64, 0, 0, 0>>
                [] OTHER -> <<64, 64, 0, 0>>
    IN  IF order = "big" THEN be ELSE Reversed(be)

\* struct.unpack(order + 'f', b): the float, when it is one of 0.0 .. 3.0
unpack_f(b, order) ==
    LET be == IF order = "big" THEN b ELSE Reversed(b)
    IN  CASE be = <<0, 0, 0, 0>> -> 0
          [] be = <<63, 128, 0, 0>> -> 1
          [] be = <<64, 0, 0, 0>> -> 2
          [] be = <<64, 64, 0, 0>> -> 3
          [] OTHER -> -1

\* bytes.decode(): UTF-8, strict.  The bytes 0xF8..0xFF occur in no UTF-8
\* text; all other bytes the model reads are ASCII.
decodes(b) == \A k \in 1 .. Len(b) : b[k] < 248

\* the magic text with at most MaxAltered bytes replaced
MaxAltered == 1
AlteredBytes == {88, 255}

RECURSIVE AlteredFrom(_, _)
AlteredFrom(text, n) ==
    IF n = 0 THEN {text}
    ELSE LET prev == AlteredFrom(text, n - 1)
         IN  prev \cup {[t EXCEPT ![k] = c] : t \in prev, k \in 1 .. Len(text),
                                               c \in AlteredBytes}

Magics == AlteredFrom(GEMPAK_HEADER, MaxAltered)

FileHeaderCounts == {-1, 0, 2}
NavbSizes == {NAVB_SIZE, ANLB_SIZE}
AnlbSizes == {ANLB_SIZE, NAVB_SIZE}
AnlbTypes == {1, 2, 3}

IdleHeader ==
    /\ hd_file = <<>>
    /\ native = "little"
    /\ swaped_bytes = FALSE
    /\ endian = "unset"
    /\ prod_desc = <<>>
    /\ navigation_block = "unset"
    /\ analysis_block = "unset"
    /\ hd_reads = <<>>
    /\ hd_pc = "idle"
    /\ hd_err = "none"

\* lines 188-194: the buffer is loaded, nothing is read yet
InitHeaderVars ==
    /\ native \in Orders
    /\ \E magic \in Magics, order \in Orders, fh \in FileHeaderCounts,
          nav \in NavbSizes, anl \in AnlbSizes, ty \in AnlbTypes :
            hd_file = [written |-> [file_headers |-> fh, navb_size |-> nav,
                                    anlb_size |-> anl, anlb_type |-> ty,
                                    order |-> order],
                       magic |-> magic,
                       version |-> pack_i(1, order),
                       file_headers |-> pack_i(fh, order),
                       navb_size |-> pack_i(nav, order),
                       anlb_size |-> pack_i(anl, order),
                       anlb_type |-> pack_f(ty, order)]
    /\ swaped_bytes = FALSE
    /\ endian = "unset"
    /\ prod_desc = <<>>
    /\ navigation_block = "unset"
    /\ analysis_block = "unset"
    /\ hd_reads = <<>>
    /\ hd_pc = "magic"
    /\ hd_err = "none"

FormatError == "TypeError: Unknown file format or invalid GEMPAK file"
NavbError == "ValueError: Navigation block size does not match GEMPAK specification"
AnlbError == "ValueError: Analysis block size does not match GEMPAK specification"

hdFrame == <<unit, hd_file, native, notHeader>>

\* _process_gempak_header, lines 331-337: the 28 bytes are read and decoded
\* (the struct's converter is bytes.decode), then compared
ProcessGempakHeader ==
    /\ unit = "header"
    /\ hd_pc = "magic"
    /\ hd_reads' = Append(hd_reads, "GempakHeader")
    /\ IF ~decodes(hd_file.magic)
       THEN hd_pc' = "error" /\ hd_err' = "UnicodeDecodeError"
       ELSE IF hd_file.magic # GEMPAK_HEADER
            THEN hd_pc' = "error" /\ hd_err' = FormatError
            ELSE hd_pc' = "swap" /\ hd_err' = hd_err
    /\ UNCHANGED <<swaped_bytes, endian, prod_desc, navigation_block, analysis_block>>
    /\ UNCHANGED hdFrame

\* line 318
swap_bytes(binary) == pack_i(1, native) # binary

\* lines 200-202 and _swap_bytes, lines 317-329
SwapBytes ==
    /\ unit = "header"
    /\ hd_pc = "swap"
    /\ hd_reads' = Append(hd_reads, "swap_probe")
    /\ swaped_bytes' = swap_bytes(hd_file.version)
    /\ endian' = IF swaped_bytes' THEN OtherOrder(native) ELSE native
    /\ hd_pc' = "prod_desc"
    /\ UNCHANGED <<prod_desc, navigation_block, analysis_block, hd_err>>
    /\ UNCHANGED hdFrame

\* lines 204-211: the product description, and the branch on file_headers
ReadProdDesc ==
    /\ unit = "header"
    /\ hd_pc = "prod_desc"
    /\ hd_reads' = Append(hd_reads, "ProductDescription")
    /\ prod_desc' = [version |-> unpack_i(hd_file.version, endian),
                     file_headers |-> unpack_i(hd_file.file_headers, endian)]
    /\ hd_pc' = IF prod_desc'.file_headers > 0 THEN "file_keys" ELSE "no_headers"
    /\ UNCHANGED <<swaped_bytes, endian, navigation_block, analysis_block, hd_err>>
    /\ UNCHANGED hdFrame

\* lines 212-221
ReadFileKeys ==
    /\ unit = "header"
    /\ hd_pc = "file_keys"
    /\ hd_reads' = Append(hd_reads, "FileKeys")
    /\ hd_pc' = "navb"
    /\ UNCHANGED <<swaped_bytes, endian, prod_desc, navigation_block, analysis_block,
                   hd_err>>
    /\ UNCHANGED hdFrame

navb_ok_any(size) == TRUE

\* line 226
navb_ok(size) == size = U32(NAVB_SIZE)

\* lines 224-235
ReadNavigationBlock ==
    /\ unit = "header"
    /\ hd_pc = "navb"
    /\ IF ~navb_ok(read_int(hd_file.navb_size, endian))
       THEN /\ hd_reads' = Append(hd_reads, "navb_size")
            /\ hd_pc' = "error"
            /\ hd_err' = NavbError
            /\ UNCHANGED navigation_block
       ELSE /\ hd_reads' = hd_reads \o <<"navb_size", "NavigationBlock">>
            /\ navigation_block' = "NavigationBlock"
            /\ hd_pc' = "anlb"
            /\ UNCHANGED hd_err
    /\ UNCHANGED <<swaped_bytes, endian, prod_desc, analysis_block>>
    /\ UNCHANGED hdFrame

\* lines 237-258
ReadAnalysisBlock ==
    /\ unit = "header"
    /\ hd_pc = "anlb"
    /\ IF read_int(hd_file.anlb_size, endian) # U32(ANLB_SIZE)
       THEN /\ hd_reads' = Append(hd_reads, "anlb_size")
            /\ hd_pc' = "error"
            /\ hd_err' = AnlbError
            /\ UNCHANGED analysis_block
       ELSE LET anlb_type == unpack_f(hd_file.anlb_type, endian)
            IN  /\ IF anlb_type = 1
                   THEN /\ analysis_block' = "AnalysisBlock1"
                        /\ hd_reads' = hd_reads \o <<"anlb_size", "anlb_type", "AnalysisBlock">>
                   ELSE IF anlb_type = 2
                   THEN /\ analysis_block' = "AnalysisBlock2"
                        /\ hd_reads' = hd_reads \o <<"anlb_size", "anlb_type", "AnalysisBlock">>
                   ELSE /\ analysis_block' = "None"
                        /\ hd_reads' = hd_reads \o <<"anlb_size", "anlb_type">>
                /\ hd_pc' = "tables"
                /\ UNCHANGED hd_err
    /\ UNCHANGED <<swaped_bytes, endian, prod_desc, navigation_block>>
    /\ UNCHANGED hdFrame

\* lines 259-261
NoFileHeaders ==
    /\ unit = "header"
    /\ hd_pc = "no_headers"
    /\ analysis_block' = "None"
    /\ navigation_block' = "None"
    /\ hd_pc' = "tables"
    /\ UNCHANGED <<swaped_bytes, endian, prod_desc, hd_reads, hd_err>>
    /\ UNCHANGED hdFrame

\* lines 263-315: the data management block, the key tables, the parts and
\* their parameters
ReadTables ==
    /\ unit = "header"
    /\ hd_pc = "tables"
    /\ hd_reads' = hd_reads \o <<"DataManagement", "RowKeys", "ColumnKeys", "Parts",
                                 "Parameters">>
    /\ hd_pc' = "done"
    /\ UNCHANGED <<swaped_bytes, endian, prod_desc, navigation_block, analysis_block,
                   hd_err>>
    /\ UNCHANGED hdFrame

NextHeader ==
    \/ ProcessGempakHeader
    \/ SwapBytes
    \/ ReadProdDesc
    \/ ReadFileKeys
    \/ ReadNavigationBlock
    \/ ReadAnalysisBlock
    \/ NoFileHeaders
    \/ ReadTables

(***************************************************************************)
(* One cell of a grid file: GempakGrid.to_xarray (decode.py 716-766) and   *)
(* the codec it calls, GempakGrid._unpack_grid (568-714).  The cell's data *)
(* block is the data header length word, the part header, the packing type *)
(* word, and the payload.  A float is modelled by its value.               *)
(***************************************************************************)
\* class PackingType, lines 88-96
PackingType ==
    [c \in 0 .. 5 |->
        CASE c = 0 -> "none" [] c = 1 -> "grib" [] c = 2 -> "nmc"
          [] c = 3 -> "diff" [] c = 4 -> "dec" [] OTHER -> "grib2"]

MaxK == 2
MaxLendat == MaxK * MaxK + 1
MaxPacked == 2
HeaderLengths == {2}
NoneCodes == {0}
UnsupportedCodes == {2, 5}
PackedCodes == {1, 3, 4}
UnknownCodes == {-1, 6}

\* payloads of n floats: word k is k, or the missing value
Payloads(n) == [1 .. n -> {0}] \cup
               {[k \in 1 .. n |-> IF k \in miss THEN MISSING ELSE k] :
                    miss \in SUBSET (1 .. n)}

\* a packed word written as its eight hexadecimal digits, most significant
\* first, as struct's 'i' reads it
Nibble(d, k) == {32 - 4 * k + b : b \in {c \in 0 .. 3 : (d \div Pow2(c)) % 2 = 1}}
Hex(ds) == Signed(UNION {Nibble(ds[k], k) : k \in 1 .. 8})

PackedWords ==
    { Hex(<<10, 12, 11, 0, 0, 0, 0, 0>>),       \* 0xACB00000
      Hex(<<15, 15, 15, 15, 15, 15, 15, 15>>),  \* 0xFFFFFFFF
      Hex(<<15, 3, 15, 5, 10, 0, 0, 7>>),       \* 0xF3F5A007
      Hex(<<15, 15, 15, 1, 2, 3, 4, 5>>),       \* 0xFFF12345
      Hex(<<0, 15, 15, 15, 0, 15, 15, 15>>) }   \* 0x0FFF0FFF

PackedPayloads(n) == [1 .. n -> PackedWords]

\* (kx, ky) of the packed cells, the field widths and the metadata values
PackedShapes == {<<1, 1>>, <<3, 1>>, <<2, 2>>}
GridBits == {4, 12, 20}
MissingFlags == {0, 1}
References == {10}
Scales == {1, 2}
Diffmins == {0, -5}

\* what _unpack_grid returns: None, a flat array or a (ky, kx) array
NoGrid == [none |-> TRUE, ndim |-> 0, values |-> <<>>]
Flat(values) == [none |-> FALSE, ndim |-> 1, values |-> values]
Array2(values) == [none |-> FALSE, ndim |-> 2, values |-> values]

\* np.zeros(n) and np.zeros((rows, cols))
zeros(n) == [k \in 1 .. n |-> 0]
zeros2(rows, cols) == [j \in 0 .. rows - 1 |-> [i \in 0 .. cols - 1 |-> 0]]

\* the locals of _unpack_grid before anything is read
NoLocals ==
    [bits |-> 0, missing_flag |-> 0, kxky |-> 0, kx |-> 0,
     reference |-> 0, scale |-> 0, diffmin |-> 0,
     lendat |-> 0, packed_buffer |-> <<>>,
     iword |-> 0, ibit |-> 0, first |-> FALSE, line |-> FALSE,
     psav |-> 0, plin |-> 0, cell |-> 0, idats |-> <<>>]

IdleGrid ==
    /\ gr_file = <<>>
    /\ kx = 0
    /\ ky = 0
    /\ header_length = 0
    /\ data_header_length = 0
    /\ packing_type = "unset"
    /\ grid = NoGrid
    /\ gl = NoLocals
    /\ gr_data = <<>>
    /\ gr_mask = <<>>
    /\ gr_pc = "idle"
    /\ gr_err = "none"

\* the words after the packing type: 8 for diff, 6 for grib and dec
MetaWords(code) == IF code = 3 THEN 8 ELSE 6

\* lines 719-725: the cursor at the cell's data block
InitGridVars ==
    /\ header_length \in HeaderLengths
    /\ \/ /\ kx \in 1 .. MaxK
          /\ ky \in 1 .. MaxK
          /\ \E code \in NoneCodes \cup UnsupportedCodes \cup UnknownCodes,
                lendat \in -1 .. MaxLendat :
               \E payload \in Payloads(IF code \in NoneCodes THEN lendat ELSE 0) :
                  gr_file = [data_header_length |-> lendat + header_length + 1,
                             packing_code |-> code,
                             payload |-> payload]
       \/ \E shape \in PackedShapes, code \in PackedCodes, lendat \in -1 .. MaxPacked :
            /\ kx = shape[1]
            /\ ky = shape[2]
            /\ \E payload \in PackedPayloads(lendat), b \in GridBits,
                  mf \in MissingFlags, r \in References, s \in Scales,
                  d \in (IF code = 3 THEN Diffmins ELSE {0}),
                  n \in (IF code = 3 THEN {kx * ky} ELSE {kx * ky, kx * ky + 1}) :
                 gr_file = [data_header_length |->
                                lendat + header_length + MetaWords(code),
                            packing_code |-> code,
                            bits |-> b, missing_flag |-> mf, kxky |-> n, kx |-> kx,
                            reference |-> r, scale |-> s, diffmin |-> d,
                            payload |-> payload]
    /\ data_header_length = 0
    /\ packing_type = "unset"
    /\ grid = NoGrid
    /\ gl = NoLocals
    /\ gr_data = <<>>
    /\ gr_mask = <<>>
    /\ gr_pc = "cell"
    /\ gr_err = "none"

grFrame == <<unit, gr_file, kx, ky, header_length, notGrid>>

\* lines 726-732: the data header length and the packing type are read;
\* PackingType(code) raises ValueError for a code that is no member
ReadCell ==
    /\ unit = "grid"
    /\ gr_pc = "cell"
    /\ data_header_length' = gr_file.data_header_length
    /\ IF gr_file.packing_code \in DOMAIN PackingType
       THEN /\ packing_type' = PackingType[gr_file.packing_code]
            /\ gr_pc' = "unpack"
            /\ UNCHANGED gr_err
       ELSE /\ gr_pc' = "error"
            /\ gr_err' = "ValueError: not a valid PackingType"
            /\ UNCHANGED packing_type
    /\ UNCHANGED <<grid, gl, gr_data, gr_mask>>
    /\ UNCHANGED grFrame

\* _unpack_grid, lines 569-580: packing type none
UnpackGridNone ==
    /\ unit = "grid"
    /\ gr_pc = "unpack"
    /\ packing_type = "none"
    /\ LET lendat == data_header_length - header_length - 1
       IN  IF lendat > 1
           THEN LET buf == SubSeq(gr_file.payload, 1, lendat)
                IN  \* grid[...] = buffer broadcasts only equal lengths
                    IF Len(buf) = ky * kx
                    THEN grid' = Flat(buf) /\ gr_pc' = "mask" /\ UNCHANGED gr_err
                    ELSE /\ gr_pc' = "error"
                         /\ gr_err' = "ValueError: could not broadcast input array"
                         /\ UNCHANGED grid
           ELSE grid' = NoGrid /\ gr_pc' = "mask" /\ UNCHANGED gr_err
    /\ UNCHANGED <<data_header_length, packing_type, gl, gr_data, gr_mask>>
    /\ UNCHANGED grFrame

\* _unpack_grid, lines 582-583 and 700-701
UnpackGridUnsupported ==
    /\ unit = "grid"
    /\ gr_pc = "unpack"
    /\ packing_type \in {"nmc", "grib2"}
    /\ gr_pc' = "error"
    /\ gr_err' = "NotImplementedError"
    /\ UNCHANGED <<data_header_length, packing_type, grid, gl, gr_data, gr_mask>>
    /\ UNCHANGED grFrame

\* the value of a Python int that fits 31 bits
RECURSIVE IntFrom(_, _)
IntFrom(a, p) ==
    IF p > 30 THEN 0 ELSE (IF p \in a THEN Pow2(p) ELSE 0) + IntFrom(a, p + 1)
IntOf(a) == IntFrom(a, 0)

\* 2**bits - 1
imiss_of(bits) == 0 .. (bits - 1)

\* packed_buffer[iword] and, for a field that crosses the word,
\* packed_buffer[iword + 1] exist
field_in_range(packed_buffer, iword, ibit, bits) ==
    /\ iword + 1 <= Len(packed_buffer)
    /\ (bits + ibit - 33 > 0) => iword + 2 <= Len(packed_buffer)

grid_field_first_word(packed_buffer, iword, ibit, bits) ==
    PyAnd(_fortran_ishift(packed_buffer[iword + 1], bits + ibit - 33), imiss_of(bits))

\* lines 617-624 (diff) and 680-687 (grib, dec): the field at (iword, ibit)
grid_field(packed_buffer, iword, ibit, bits) ==
    LET jshft == bits + ibit - 33
        idat == PyAnd(_fortran_ishift(packed_buffer[iword + 1], jshft), imiss_of(bits))
    IN  IF jshft > 0
        THEN PyOr(idat, _fortran_ishift(packed_buffer[iword + 2], jshft - 32))
        ELSE idat

\* lines 594-611 (diff) and 657-672 (grib, dec): the metadata and the packed
\* words are read.  struct.Struct rejects the format of a negative count.
ReadGridMeta ==
    /\ unit = "grid"
    /\ gr_pc = "unpack"
    /\ packing_type \in {"diff", "grib", "dec"}
    /\ LET lendat == data_header_length - header_length
                        - (IF packing_type = "diff" THEN 8 ELSE 6)
           meta == [gl EXCEPT !.bits = gr_file.bits,
                              !.missing_flag = gr_file.missing_flag,
                              !.kxky = gr_file.kxky,
                              !.kx = IF packing_type = "diff" THEN gr_file.kx ELSE 0,
                              !.reference = gr_file.reference,
                              !.scale = gr_file.scale,
                              !.diffmin = IF packing_type = "diff"
                                          THEN gr_file.diffmin ELSE 0,
                              !.lendat = lendat]
       IN  IF lendat < 0
           THEN /\ gl' = meta
                /\ gr_pc' = "error"
                /\ gr_err' = "struct.error: bad char in struct format"
                /\ UNCHANGED grid
           ELSE /\ gl' = [meta EXCEPT !.packed_buffer = SubSeq(gr_file.payload, 1, lendat),
                                      !.iword = 0, !.ibit = 1, !.first = TRUE]
                /\ UNCHANGED gr_err
                /\ IF lendat > 1
                   THEN /\ grid' = IF packing_type = "diff"
                                   THEN Array2(zeros2(ky, kx))
                                   ELSE Flat(zeros(gr_file.kxky))
                        /\ gr_pc' = "cells"
                   ELSE /\ grid' = NoGrid
                        /\ gr_pc' = "mask"
    /\ UNCHANGED <<data_header_length, packing_type, gr_data, gr_mask>>
    /\ UNCHANGED grFrame

\* lines 640-649: diffmin + idat * scale
diff_delta_unscaled(idat, scale, diffmin) == diffmin + idat

diff_delta(idat, scale, diffmin) == diffmin + idat * scale

diff_value_from_reference(first, line, reference, plin, psav, delta) ==
    reference + delta

\* lines 634-649: the value of a cell that is not missing
diff_value(first, line, reference, plin, psav, delta) ==
    IF first THEN reference
    ELSE IF ~line THEN plin + delta
    ELSE psav + delta

\* lines 612-650: one pass of the inner loop of the diff codec, cell (j, i)
DiffCell ==
    /\ unit = "grid"
    /\ gr_pc = "cells"
    /\ packing_type = "diff"
    /\ LET j == gl.cell \div kx
           i == gl.cell % kx
           line == IF i = 0 THEN FALSE ELSE gl.line
       IN  IF ~field_in_range(gl.packed_buffer, gl.iword, gl.ibit, gl.bits)
           THEN /\ gr_pc' = "error"
                /\ gr_err' = "IndexError: tuple index out of range"
                /\ UNCHANGED <<grid, gl>>
           ELSE LET idat == grid_field(gl.packed_buffer, gl.iword, gl.ibit, gl.bits)
                    ibit == gl.ibit + gl.bits
                    missing == gl.missing_flag # 0 /\ idat = imiss_of(gl.bits)
                    value == diff_value(gl.first, line, gl.reference, gl.plin, gl.psav,
                                        diff_delta(IntOf(idat), gl.scale, gl.diffmin))
                IN  /\ grid' = [grid EXCEPT !.values[j][i] =
                                    IF missing THEN MISSING ELSE value]
                    /\ gl' = [gl EXCEPT
                                !.ibit = IF ibit > 32 THEN ibit - 32 ELSE ibit,
                                !.iword = IF ibit > 32 THEN @ + 1 ELSE @,
                                !.first = IF missing THEN @ ELSE FALSE,
                                !.line = IF missing THEN line ELSE TRUE,
                                !.psav = IF missing THEN @ ELSE value,
                                !.plin = IF missing \/ (~gl.first /\ line)
                                         THEN @ ELSE value,
                                !.cell = @ + 1,
                                !.idats = Append(@, IntOf(idat))]
                    /\ gr_pc' = IF gl.cell + 1 = ky * kx THEN "mask" ELSE "cells"
                    /\ UNCHANGED gr_err
    /\ UNCHANGED <<data_header_length, packing_type, gr_data, gr_mask>>
    /\ UNCHANGED grFrame

\* lines 674-697: one pass of the loop of the grib and dec codecs
GribCell ==
    /\ unit = "grid"
    /\ gr_pc = "cells"
    /\ packing_type \in {"grib", "dec"}
    /\ IF ~field_in_range(gl.packed_buffer, gl.iword, gl.ibit, gl.bits)
       THEN /\ gr_pc' = "error"
            /\ gr_err' = "IndexError: tuple index out of range"
            /\ UNCHANGED <<grid, gl>>
       ELSE LET idat == grid_field(gl.packed_buffer, gl.iword, gl.ibit, gl.bits)
                ibit == gl.ibit + gl.bits
            IN  /\ grid' = [grid EXCEPT !.values[gl.cell + 1] =
                                IF idat = imiss_of(gl.bits) /\ gl.missing_flag # 0
                                THEN MISSING
                                ELSE gl.reference + IntOf(idat) * gl.scale]
                /\ gl' = [gl EXCEPT
                            !.ibit = IF ibit > 32 THEN ibit - 32 ELSE ibit,
                            !.iword = IF ibit > 32 THEN @ + 1 ELSE @,
                            !.cell = @ + 1,
                            !.idats = Append(@, IntOf(idat))]
                /\ gr_pc' = IF gl.cell + 1 = gl.kxky THEN "mask" ELSE "cells"
                /\ UNCHANGED gr_err
    /\ UNCHANGED <<data_header_length, packing_type, gr_data, gr_mask>>
    /\ UNCHANGED grFrame

reshape_column_major(flat, rows, cols) ==
    [j \in 0 .. rows - 1 |-> [i \in 0 .. cols - 1 |-> flat[i * rows + j + 1]]]

\* ndarray.reshape((rows, cols)) of a flat array, C order
reshape(flat, rows, cols) ==
    [j \in 0 .. rows - 1 |-> [i \in 0 .. cols - 1 |-> flat[j * cols + i + 1]]]

\* to_xarray, lines 742-765: a flat field is shaped, and the field is masked
ToXarray ==
    /\ unit = "grid"
    /\ gr_pc = "mask"
    /\ IF grid.none
       THEN gr_pc' = "done" /\ UNCHANGED <<gr_data, gr_mask, gr_err>>
       ELSE IF grid.ndim < 2
       THEN IF Len(grid.values) = ky * kx
            THEN /\ gr_data' = reshape(grid.values, ky, kx)
                 /\ gr_mask' = reshape([k \in 1 .. Len(grid.values) |->
                                           grid.values[k] = MISSING], ky, kx)
                 /\ gr_pc' = "done"
                 /\ UNCHANGED gr_err
            ELSE /\ gr_pc' = "error"
                 /\ gr_err' = "ValueError: cannot reshape array"
                 /\ UNCHANGED <<gr_data, gr_mask>>
       ELSE /\ gr_data' = grid.values
            /\ gr_mask' = [j \in 0 .. ky - 1 |-> [i \in 0 .. kx - 1 |->
                               grid.values[j][i] = MISSING]]
            /\ gr_pc' = "done"
            /\ UNCHANGED gr_err
    /\ UNCHANGED <<data_header_length, packing_type, grid, gl>>
    /\ UNCHANGED grFrame

NextGrid ==
    \/ ReadCell
    \/ UnpackGridNone
    \/ UnpackGridUnsupported
    \/ ReadGridMeta
    \/ DiffCell
    \/ GribCell
    \/ ToXarray

(***************************************************************************)
(* GempakSounding._merge_sounding (decode.py 921-1465): the parts of one   *)
(* unmerged sounding are merged into one profile.  parts maps a part name  *)
(* to its columns (parameter name -> tuple), as _unpack_unmerged builds    *)
(* them; a part whose data pointer is 0 is absent.  A float is modelled by *)
(* an integer, so np.isclose and abs(a - b) < 1 are equality.              *)
(***************************************************************************)
Fields == {"PRES", "HGHT", "TEMP", "DWPT", "DRCT", "SPED"}

\* ---- Python list operations; indices are 0-based as in the source
Has(s, v) == \E k \in 1 .. Len(s) : s[k] = v

\* list.index(v): the first position of v
index(s, v) == (CHOOSE k \in 1 .. Len(s) : s[k] = v /\ \A j \in 1 .. k - 1 : s[j] # v) - 1

\* list.insert(loc, v): a negative loc counts from the end, and loc is
\* clamped to the list
insert(s, loc, v) ==
    LET n == Len(s)
        at == IF loc < 0 THEN (IF loc + n < 0 THEN 0 ELSE loc + n)
              ELSE IF loc > n THEN n ELSE loc
    IN  SubSeq(s, 1, at) \o <<v>> \o SubSeq(s, at + 1, n)

\* bisect.bisect_left(a, x), as CPython computes it (a need not be sorted)
RECURSIVE bisect(_, _, _, _)
bisect(a, x, lo, hi) ==
    IF lo < hi
    THEN LET mid == (lo + hi) \div 2
         IN  IF a[mid + 1] < x THEN bisect(a, x, mid + 1, hi) ELSE bisect(a, x, lo, mid)
    ELSE lo

bisect_left(a, x) == bisect(a, x, 0, Len(a))

abs(x) == IF x < 0 THEN -x ELSE x

\* a[1:]
Rest(s) == SubSeq(s, 2, Len(s))

\* size - bisect.bisect_left(merged['PRES'][::-1], pres)
loc_by_pressure(pres_list, size, pres) == size - bisect_left(Reversed(pres_list), pres)

\* one level inserted in the lists named by vals, at loc in each
insert_level(mg, loc, vals) ==
    [f \in DOMAIN mg |->
        IF f \in DOMAIN vals THEN insert(mg[f], loc, vals[f]) ELSE mg[f]]

\* entry k (0-based) of a part, by parameter
Row(part, k) == [f \in DOMAIN part |-> part[f][k + 1]]

\* ---- the interpolators of gemcalc, which fill missing entries in place
EqualLengths(mg) == \A f \in Fields : Len(mg[f]) = Len(mg.PRES)

HeightOf(p) == 100 + 10 * (1000 - p)
PressureOf(z) == 1000 - ((z - 100) \div 10)

\* interp_moist_height, interp_logp_height: heights from pressures
fill_height(mg) ==
    [mg EXCEPT !.HGHT =
        [k \in 1 .. Len(mg.HGHT) |->
            IF mg.HGHT[k] = MISSING /\ mg.PRES[k] # MISSING
            THEN HeightOf(mg.PRES[k]) ELSE mg.HGHT[k]]]

\* interp_logp_pressure: pressures from heights
fill_pressure(mg) ==
    [mg EXCEPT !.PRES =
        [k \in 1 .. Len(mg.PRES) |->
            IF mg.PRES[k] = MISSING /\ mg.HGHT[k] # MISSING
            THEN PressureOf(mg.HGHT[k]) ELSE mg.PRES[k]]]

\* the last value at or below position k that is not missing
RECURSIVE known_below(_, _)
known_below(s, k) ==
    IF k = 0 THEN MISSING
    ELSE IF s[k] # MISSING THEN s[k] ELSE known_below(s, k - 1)

\* interp_logp_data: temperature, dew point and wind from the levels below
fill_data(mg) ==
    [f \in DOMAIN mg |->
        IF f \in {"TEMP", "DWPT", "DRCT", "SPED"}
        THEN [k \in 1 .. Len(mg[f]) |-> known_below(mg[f], k)]
        ELSE mg[f]]

\* what an interpolator may leave behind: the profile as it was, or filled
interp_results(mg, filled) == {mg, filled}

\* ---- the inputs
TTAAFields == {"PRES", "TEMP", "DWPT", "DRCT", "SPED", "HGHT"}
TropFields == {"PRES", "TEMP", "DWPT", "DRCT", "SPED"}
SigtFields == {"PRES", "TEMP", "DWPT"}
WindFields == {"PRES", "DRCT", "SPED"}
ZWindFields == {"HGHT", "DRCT", "SPED"}

PartNames == {"TTAA", "TTBB", "TTCC", "TTDD", "PPAA", "PPBB", "PPCC", "PPDD",
              "TRPA", "TRPC", "MXWA", "MXWC"}

PartFields(name) ==
    CASE name \in {"TTAA", "TTCC"} -> TTAAFields
      [] name \in {"TTBB", "TTDD"} -> SigtFields
      [] name \in {"TRPA", "TRPC"} -> TropFields
      [] OTHER -> WindFields

\* packed_buffer[iprm::nparms], line 916: the rows of a part, by column
Cols(fields, rows) == [f \in fields |-> [k \in 1 .. Len(rows) |-> rows[k][f]]]

Present(fields, rows) == [present |-> TRUE, cols |-> Cols(fields, rows)]
Absent == [present |-> FALSE, cols |-> <<>>]

\* a level with every parameter the part has; tag tells the parts apart
Lev(fields, p, tag) ==
    [f \in fields |->
        CASE f = "PRES" -> p
          [] f = "HGHT" -> HeightOf(p)
          [] f = "TEMP" -> 20 + tag
          [] f = "DWPT" -> 10 + tag
          [] f = "DRCT" -> 200 + tag
          [] OTHER -> 40 + tag]

ZLev(z, tag) == [HGHT |-> z, DRCT |-> 200 + tag, SPED |-> 40 + tag]
Blank(fields) == [f \in fields |-> MISSING]
Without(row, fs) == [f \in DOMAIN row |-> IF f \in fs THEN MISSING ELSE row[f]]

\* the stations's elevation, col_head.SELV
StationElevations == {100}

TTAAOptions ==
    LET L(p) == Lev(TTAAFields, p, 0)
    IN  { Absent,
          Present(TTAAFields, <<>>),
          Present(TTAAFields, <<L(1000)>>),
          Present(TTAAFields, <<L(1000), Without(L(850), {"DRCT", "SPED"}), L(700)>>),
          Present(TTAAFields, <<L(1000), L(1050), L(850)>>),
          Present(TTAAFields, <<Blank(TTAAFields), L(850), L(700)>>),
          Present(TTAAFields, <<L(1000), Without(L(850), {"TEMP"}), L(700)>>),
          Present(TTAAFields, <<L(1070), L(850)>>) }

\* what a part other than TTAA holds when it is not the default
Alternatives(name) ==
    LET F == PartFields(name)
        L(p, tag) == Lev(F, p, tag)
    IN  CASE name = "TTCC" ->
                { Absent,
                  Present(F, <<L(100, 1), L(70, 1)>>),
                  Present(F, <<L(70, 1), L(50, 1)>>) }
          [] name = "PPAA" ->
                { Absent,
                  Present(F, <<L(850, 2)>>),
                  Present(F, <<L(925, 2)>>),
                  Present(F, <<L(1050, 2)>>),
                  Present(F, <<L(MISSING, 2)>>) }
          [] name = "PPCC" ->
                { Absent,
                  Present(F, <<L(70, 3)>>),
                  Present(F, <<L(50, 3), L(30, 3)>>) }
          [] name = "TRPA" ->
                { Absent,
                  Present(F, <<L(300, 4)>>),
                  Present(F, <<L(850, 4), L(900, 4)>>),
                  Present(F, <<Blank(F), L(MISSING, 4)>>),
                  Present(F, <<L(300, 4), Without(L(400, 4), {"TEMP"}), L(350, 4)>>) }
          [] name = "TRPC" ->
                { Absent,
                  Present(F, <<L(80, 5)>>),
                  Present(F, <<L(400, 5)>>) }
          [] name = "TTBB" ->
                { Absent,
                  Present(F, <<L(1000, 6), L(900, 6)>>),
                  Present(F, <<L(900, 6), L(850, 6)>>),
                  Present(F, <<Blank(F), L(MISSING, 6)>>),
                  Present(F, <<L(-900, 6)>>) }
          [] name = "TTDD" ->
                { Absent,
                  Present(F, <<L(60, 7)>>),
                  Present(F, <<L(70, 7)>>) }
          [] name = "PPBB" ->
                { Absent,
                  Present(F, <<L(1000, 8), L(900, 8)>>),
                  Present(F, <<L(850, 8)>>),
                  Present(F, <<Blank(F), L(MISSING, 8)>>),
                  Present(ZWindFields, <<>>),
                  Present(ZWindFields, <<ZLev(0, 8), ZLev(2000, 8)>>),
                  Present(ZWindFields, <<Blank(ZWindFields)>>),
                  Present(ZWindFields, <<ZLev(HeightOf(850), 8), ZLev(2000, 8)>>),
                  Present(ZWindFields, <<ZLev(0, 8)>>) }
          [] name = "PPDD" ->
                { Absent,
                  Present(F, <<L(60, 9)>>),
                  Present(ZWindFields, <<>>),
                  Present(ZWindFields, <<ZLev(12000, 9)>>) }
          [] name = "MXWA" ->
                { Absent,
                  Present(F, <<L(250, 10)>>),
                  Present(F, <<L(700, 10)>>) }
          [] OTHER ->
                { Absent,
                  Present(F, <<L(80, 11)>>) }

\* a part that is there and empty, in pressure coordinates
Default(name) == Present(PartFields(name), <<>>)

\* at most MaxActive parts other than TTAA differ from the default
MaxActive == 2

ActiveSets == {S \in SUBSET (PartNames \ {"TTAA"}) : Cardinality(S) <= MaxActive}

Choices(S) ==
    {c \in [S -> UNION {Alternatives(n) : n \in S}] : \A n \in S : c[n] \in Alternatives(n)}

\* the parts dict of one sounding, lines 868-916
PartsOf(ttaa, c) ==
    LET opt(n) == IF n = "TTAA" THEN ttaa
                  ELSE IF n \in DOMAIN c THEN c[n] ELSE Default(n)
    IN  [n \in {x \in PartNames : opt(x).present} |-> opt(n).cols]

\* both significant-temperature parts on top of the mandatory levels of
\* TTAA and TTCC
SigtTogether ==
    LET c == [n \in {"TTBB", "TTCC", "TTDD"} |->
                CASE n = "TTBB" -> Present(SigtFields, <<Lev(SigtFields, 1000, 6),
                                                         Lev(SigtFields, 900, 6)>>)
                  [] n = "TTCC" -> Present(TTAAFields, <<Lev(TTAAFields, 100, 1),
                                                         Lev(TTAAFields, 70, 1)>>)
                  [] OTHER -> Present(SigtFields, <<Lev(SigtFields, 70, 7)>>)]
    IN  PartsOf(Present(TTAAFields, <<Lev(TTAAFields, 1000, 0)>>), c)

Soundings ==
    {PartsOf(ttaa, c) : ttaa \in TTAAOptions, c \in UNION {Choices(S) : S \in ActiveSets}}
        \cup {SigtTogether}

\* the value of a local that is not bound yet
Unbound == -1

IdleMerge ==
    /\ parts = <<>>
    /\ merged = <<>>
    /\ lv = <<>>
    /\ mg_pc = "idle"
    /\ mg_err = "none"

\* lines 922-935: the profile starts with six empty lists
InitMergeVars ==
    /\ parts \in Soundings
    /\ \E elv \in StationElevations :
          merged = [SELV |-> elv, PRES |-> <<>>, HGHT |-> <<>>, TEMP |-> <<>>,
                    DWPT |-> <<>>, DRCT |-> <<>>, SPED |-> <<>>]
    /\ lv = [num_man_levels |-> 0, num_man_wind_levels |-> 0, num_trop_levels |-> 0,
             num_max_wind_levels |-> 0, num_sigt_levels |-> 0, num_sigw_levels |-> 0,
             num_above_man_levels |-> 0, num_above_trop_levels |-> 0,
             num_above_max_wind_levels |-> 0, num_above_sigt_levels |-> 0,
             num_above_sigw_levels |-> 0, num_above_man_wind_levels |-> 0,
             ppbb_is_z |-> FALSE, ppdd_is_z |-> FALSE,
             first_man_p |-> Unbound, bgl |-> Unbound, plast |-> Unbound,
             pbot |-> Unbound, size |-> Unbound, i |-> Unbound,
             istart |-> Unbound, nsgw |-> Unbound, nasw |-> Unbound,
             more |-> FALSE, zold |-> Unbound, znxt |-> Unbound, ilev |-> Unbound,
             above |-> FALSE, iend |-> Unbound]
    /\ mg_pc = "counts"
    /\ mg_err = "none"

mgFrame == <<unit, parts, notMerge>>

\* the step ends in an exception
Raise(e) == mg_pc' = "error" /\ mg_err' = e

\* the step ends normally and control moves on
Goto(pc) == mg_pc' = pc /\ mg_err' = mg_err

\* len(parts[name][param]) if name in parts else 0
count(name, param) == IF name \in DOMAIN parts THEN Len(parts[name][param]) ELSE 0

\* lines 937-953: the level counts and the coordinate of the SIG wind parts
MergeCounts ==
    /\ unit = "merge"
    /\ mg_pc = "counts"
    /\ lv' = [lv EXCEPT
                !.num_man_levels = count("TTAA", "PRES"),
                !.num_man_wind_levels = count("PPAA", "PRES"),
                !.num_trop_levels = count("TRPA", "PRES"),
                !.num_max_wind_levels = count("MXWA", "PRES"),
                !.num_sigt_levels = count("TTBB", "PRES"),
                !.num_sigw_levels = count("PPBB", "SPED"),
                !.num_above_man_levels = count("TTCC", "PRES"),
                !.num_above_trop_levels = count("TRPC", "PRES"),
                !.num_above_max_wind_levels = count("MXWC", "SPED"),
                !.num_above_sigt_levels = count("TTDD", "PRES"),
                !.num_above_sigw_levels = count("PPDD", "SPED"),
                !.num_above_man_wind_levels = count("PPCC", "SPED"),
                !.ppbb_is_z = "PPBB" \in DOMAIN parts /\ "HGHT" \in DOMAIN parts["PPBB"],
                !.ppdd_is_z = "PPDD" \in DOMAIN parts /\ "HGHT" \in DOMAIN parts["PPDD"]]
    /\ IF "PPBB" \notin DOMAIN parts \/ "PPDD" \notin DOMAIN parts
       THEN Raise("KeyError")
       ELSE Goto("seed")
    /\ UNCHANGED merged
    /\ UNCHANGED mgFrame

\* lines 955-971: level 0 is seeded
SeedSurface ==
    /\ unit = "merge"
    /\ mg_pc = "seed"
    /\ LET seeded ==
            IF lv.num_man_levels < 1
            THEN [f \in DOMAIN merged |->
                    IF f \in Fields THEN Append(merged[f], MISSING) ELSE merged[f]]
            ELSE [f \in DOMAIN merged |->
                    IF f \in Fields THEN Append(merged[f], parts["TTAA"][f][1])
                    ELSE merged[f]]
       IN  merged' = [seeded EXCEPT !.HGHT[1] = merged.SELV]
    /\ Goto("first_man")
    /\ UNCHANGED lv
    /\ UNCHANGED mgFrame

\* the first pressure of TTAA['PRES'] that is not missing, else missing
RECURSIVE first_present(_, _)
first_present(pres, k) ==
    IF k > Len(pres) THEN MISSING
    ELSE IF pres[k] # MISSING THEN pres[k] ELSE first_present(pres, k + 1)

\* lines 973-981
FirstManP ==
    /\ unit = "merge"
    /\ mg_pc = "first_man"
    /\ IF "TTAA" \notin DOMAIN parts
       THEN Raise("KeyError") /\ UNCHANGED lv
       ELSE /\ lv' = [lv EXCEPT !.first_man_p = first_present(parts["TTAA"]["PRES"], 1)]
            /\ Goto("surface")
    /\ UNCHANGED merged
    /\ UNCHANGED mgFrame

\* level 0 with every field missing
blank_surface(mg) ==
    [f \in DOMAIN mg |-> IF f \in Fields THEN [mg[f] EXCEPT ![1] = MISSING] ELSE mg[f]]

\* lines 983-995: the surface is validated
ValidateSurface ==
    /\ unit = "merge"
    /\ mg_pc = "surface"
    /\ LET surface_p == IF merged.PRES[1] > 1060 THEN MISSING ELSE merged.PRES[1]
       IN  IF \/ surface_p = MISSING
              \/ (surface_p < lv.first_man_p /\ surface_p # MISSING)
           THEN merged' = blank_surface(merged)
           ELSE merged' = merged
    /\ Goto("sigt_sfc")
    /\ UNCHANGED lv
    /\ UNCHANGED mgFrame

\* lines 997-1006: the surface taken from the first SIG temperature level
SigtSurface ==
    /\ unit = "merge"
    /\ mg_pc = "sigt_sfc"
    /\ IF lv.num_above_sigt_levels >= 1
       THEN IF "TTBB" \notin DOMAIN parts
            THEN Raise("KeyError") /\ UNCHANGED <<merged, lv>>
            ELSE IF Len(parts["TTBB"]["PRES"]) = 0
            THEN Raise("IndexError") /\ UNCHANGED <<merged, lv>>
            ELSE LET ttbb == Row(parts["TTBB"], 0)
                 IN  IF ttbb.PRES # MISSING /\ ttbb.TEMP # MISSING
                     THEN /\ lv' = [lv EXCEPT !.first_man_p = merged.PRES[1]]
                          /\ IF merged.PRES[1] = MISSING \/ merged.PRES[1] = ttbb.PRES
                             THEN merged' = [merged EXCEPT !.PRES[1] = ttbb.PRES,
                                                           !.DWPT[1] = ttbb.DWPT,
                                                           !.TEMP[1] = ttbb.TEMP]
                             ELSE merged' = merged
                          /\ Goto("sigw_sfc")
                     ELSE Goto("sigw_sfc") /\ UNCHANGED <<merged, lv>>
       ELSE Goto("sigw_sfc") /\ UNCHANGED <<merged, lv>>
    /\ UNCHANGED mgFrame

\* lines 1008-1024: the surface wind taken from the first SIG wind level
SigwSurface ==
    /\ unit = "merge"
    /\ mg_pc = "sigw_sfc"
    /\ IF lv.num_above_sigw_levels >= 1
       THEN IF Len(parts["PPBB"]["DRCT"]) = 0
            THEN Raise("IndexError") /\ UNCHANGED <<merged, lv>>
            ELSE LET ppbb == Row(parts["PPBB"], 0)
                 IN  IF lv.ppbb_is_z
                     THEN /\ IF ppbb.HGHT = 0 /\ ppbb.DRCT # MISSING
                             THEN merged' = [merged EXCEPT !.DRCT[1] = ppbb.DRCT,
                                                           !.SPED[1] = ppbb.SPED]
                             ELSE merged' = merged
                          /\ Goto("man")
                          /\ UNCHANGED lv
                     ELSE IF ppbb.PRES # MISSING /\ ppbb.DRCT # MISSING
                     THEN /\ lv' = [lv EXCEPT !.first_man_p = merged.PRES[1]]
                          /\ IF \/ merged.PRES[1] = MISSING
                                \/ merged.PRES[1] = abs(ppbb.PRES)
                             THEN merged' = [merged EXCEPT !.DRCT[1] = ppbb.DRCT,
                                                           !.SPED[1] = ppbb.SPED]
                             ELSE merged' = merged
                          /\ Goto("man")
                     ELSE Goto("man") /\ UNCHANGED <<merged, lv>>
       ELSE Goto("man") /\ UNCHANGED <<merged, lv>>
    /\ UNCHANGED mgFrame

\* lines 1026-1032: bgl and plast before the mandatory levels are appended
ManStart ==
    /\ unit = "merge"
    /\ mg_pc = "man"
    /\ IF lv.num_man_levels >= 2 \/ lv.num_above_man_levels >= 1
       THEN /\ lv' = [lv EXCEPT !.bgl = 0, !.i = 1,
                                !.plast = IF merged.PRES[1] = MISSING THEN 2000
                                          ELSE merged.PRES[1]]
            /\ Goto("ttaa")
       ELSE /\ lv' = [lv EXCEPT !.bgl = 0, !.i = 0]
            /\ Goto("ppaa")
    /\ UNCHANGED merged
    /\ UNCHANGED mgFrame

\* the test of lines 1035-1038 (1046-1049)
man_level_ok(row, plast) ==
    /\ row.PRES < plast
    /\ row.PRES # MISSING
    /\ row.TEMP # MISSING
    /\ row.HGHT # MISSING

\* lines 1039-1040 (1050-1051): the level is appended to the lists the part names
append_level(mg, row) ==
    [f \in DOMAIN mg |-> IF f \in DOMAIN row THEN Append(mg[f], row[f]) ELSE mg[f]]

\* lines 1034-1043: one mandatory level of TTAA, or the loop's end
MergeTTAA ==
    /\ unit = "merge"
    /\ mg_pc = "ttaa"
    /\ IF lv.i < lv.num_man_levels
       THEN LET row == Row(parts["TTAA"], lv.i)
            IN  IF man_level_ok(row, lv.plast)
                THEN /\ merged' = append_level(merged, row)
                     /\ lv' = [lv EXCEPT !.plast = row.PRES, !.i = @ + 1]
                     /\ Goto("ttaa")
                ELSE /\ merged' = merged
                     /\ lv' = [lv EXCEPT !.bgl = @ + 1, !.i = @ + 1]
                     /\ Goto("ttaa")
       ELSE /\ merged' = merged
            /\ lv' = [lv EXCEPT !.i = 1]
            /\ Goto("ttcc")
    /\ UNCHANGED mgFrame

\* lines 1045-1052: one level of TTCC, or the loop's end
MergeTTCC ==
    /\ unit = "merge"
    /\ mg_pc = "ttcc"
    /\ IF lv.i < lv.num_above_man_levels
       THEN LET row == Row(parts["TTCC"], lv.i)
            IN  IF man_level_ok(row, lv.plast)
                THEN /\ merged' = append_level(merged, row)
                     /\ lv' = [lv EXCEPT !.plast = row.PRES, !.i = @ + 1]
                     /\ Goto("ttcc")
                ELSE /\ merged' = merged
                     /\ lv' = [lv EXCEPT !.i = @ + 1]
                     /\ Goto("ttcc")
       ELSE /\ merged' = merged
            /\ lv' = [lv EXCEPT !.i = 0]
            /\ Goto("ppaa")
    /\ UNCHANGED mgFrame

\* lines 1057-1069 (1073-1085): one mandatory wind entry.  The result is
\* the profile and the local size.
man_wind_entry(mg, size, row) ==
    IF Has(Rest(mg.PRES), row.PRES)
    THEN LET loc == index(mg.PRES, row.PRES)
         IN  [merged |-> IF mg.DRCT[loc + 1] = MISSING
                         THEN [mg EXCEPT !.DRCT[loc + 1] = row.DRCT,
                                         !.SPED[loc + 1] = row.SPED]
                         ELSE mg,
              size |-> size]
    ELSE LET sz == Len(mg.PRES)
             loc0 == loc_by_pressure(Rest(mg.PRES), sz, row.PRES)
             loc == IF loc0 >= sz + 1 THEN -1 ELSE loc0
         IN  [merged |-> insert_level(mg, loc, [PRES |-> row.PRES, DRCT |-> row.DRCT,
                                                SPED |-> row.SPED]),
              size |-> sz]

\* lines 1055-1069: one entry of PPAA, or the loop's end
MergePPAA ==
    /\ unit = "merge"
    /\ mg_pc = "ppaa"
    /\ IF /\ lv.num_man_wind_levels >= 1
          /\ lv.num_man_levels >= 2
          /\ lv.i < Len(parts["PPAA"]["PRES"])
       THEN LET r == man_wind_entry(merged, lv.size, Row(parts["PPAA"], lv.i))
            IN  /\ merged' = r.merged
                /\ lv' = [lv EXCEPT !.size = r.size, !.i = @ + 1]
                /\ Goto("ppaa")
       ELSE /\ merged' = merged
            /\ lv' = [lv EXCEPT !.i = 0]
            /\ Goto("ppcc")
    /\ UNCHANGED mgFrame

\* lines 1071-1085: one entry of PPCC, or the loop's end
MergePPCC ==
    /\ unit = "merge"
    /\ mg_pc = "ppcc"
    /\ IF /\ lv.num_above_man_wind_levels >= 1
          /\ lv.num_man_levels >= 2
          /\ lv.i < Len(parts["PPCC"]["PRES"])
       THEN LET r == man_wind_entry(merged, lv.size, Row(parts["PPCC"], lv.i))
            IN  /\ merged' = r.merged
                /\ lv' = [lv EXCEPT !.size = r.size, !.i = @ + 1]
                /\ Goto("ppcc")
       ELSE /\ merged' = merged
            /\ lv' = [lv EXCEPT !.i = 0]
            /\ Goto("trop")
    /\ UNCHANGED mgFrame

\* lines 1089-1096 (1156-1163): pbot before a tropopause or SIG temperature
\* merge; name is the part whose second pressure the code compares with.
\* The result is pbot, or the exception.
pbot_start(mg, name) ==
    IF mg.PRES[1] # MISSING THEN [pbot |-> mg.PRES[1], err |-> "none"]
    ELSE IF Len(mg.PRES) > 1
    THEN IF name \notin DOMAIN parts THEN [pbot |-> 0, err |-> "KeyError"]
         ELSE IF Len(parts[name]["PRES"]) < 2 THEN [pbot |-> 0, err |-> "IndexError"]
         ELSE [pbot |-> IF mg.PRES[2] < parts[name]["PRES"][2] THEN 1050 ELSE mg.PRES[2],
               err |-> "none"]
    ELSE [pbot |-> 1050, err |-> "none"]

\* lines 1222-1227 (1283-1288): pbot before a wind merge
pbot_start_wind(mg) ==
    IF mg.PRES[1] # MISSING THEN mg.PRES[1]
    ELSE IF Len(mg.PRES) > 1 THEN mg.PRES[2]
    ELSE 0

\* the entry is usable: lines 1101-1103, 1168-1170, 1232-1235, 1293-1296
entry_ok(kind, pres, row) ==
    /\ pres # MISSING
    /\ IF kind \in {"trop", "sigt", "sigt_above"}
       THEN row.TEMP # MISSING
       ELSE row.DRCT # MISSING /\ row.SPED # MISSING
    /\ pres # 0

\* the entry's pressure is in the profile at ploc: lines 1107-1114,
\* 1174-1177, 1198-1204, 1239-1243
fill_level(kind, mg, ploc, row) ==
    LET k == ploc + 1
        temp == IF mg.TEMP[k] = MISSING
                THEN [mg EXCEPT !.TEMP[k] = row.TEMP, !.DWPT[k] = row.DWPT]
                ELSE mg
        wind == IF temp.DRCT[k] = MISSING
                THEN [temp EXCEPT !.DRCT[k] = row.DRCT, !.SPED[k] = row.SPED]
                ELSE temp
    IN  CASE kind = "trop" -> [wind EXCEPT !.HGHT[k] = MISSING]
          [] kind = "sigt" -> temp
          [] kind = "sigt_above" ->
                [temp EXCEPT !.DRCT[k] = MISSING, !.SPED[k] = MISSING,
                             !.HGHT[k] = MISSING]
          [] OTHER ->
                IF mg.DRCT[k] = MISSING \/ mg.SPED[k] = MISSING
                THEN [mg EXCEPT !.DRCT[k] = row.DRCT, !.SPED[k] = row.SPED]
                ELSE mg

\* the level inserted for the entry: lines 1118-1123, 1181-1186, 1247-1252
new_level(pres, row) ==
    [f \in Fields |->
        IF f = "PRES" THEN pres
        ELSE IF f \in DOMAIN row /\ f # "HGHT" THEN row[f]
        ELSE MISSING]

\* one entry of a pressure-keyed merge: lines 1100-1124 and their copies.
\* The result is the profile, pbot, size, and the exception if one is raised.
pressure_entry(kind, mg, pbot, size, row) ==
    LET pres == abs(row.PRES)
    IN  IF entry_ok(kind, pres, row)
        THEN IF pres > pbot
             THEN [merged |-> mg, pbot |-> pbot, size |-> size, err |-> "none"]
             ELSE IF Has(mg.PRES, pres)
             THEN LET ploc == index(mg.PRES, pres)
                  IN  IF kind \in {"trop", "sigt", "sigt_above"} /\ ploc >= Len(mg.TEMP)
                      THEN [merged |-> mg, pbot |-> pbot, size |-> size,
                            err |-> "IndexError"]
                      ELSE [merged |-> fill_level(kind, mg, ploc, row), pbot |-> pres,
                            size |-> size, err |-> "none"]
             ELSE LET sz == Len(mg.PRES)
                      loc == loc_by_pressure(mg.PRES, sz, pres)
                  IN  [merged |-> insert_level(mg, loc, new_level(pres, row)),
                       pbot |-> pres, size |-> sz, err |-> "none"]
        ELSE [merged |-> mg, pbot |-> pres, size |-> size, err |-> "none"]

\* one iteration of a pressure-keyed loop over part name, or the loop's end
PressureLoop(pc, name, kind, enabled, next) ==
    /\ unit = "merge"
    /\ mg_pc = pc
    /\ IF enabled /\ lv.i < Len(parts[name]["PRES"])
       THEN LET r == pressure_entry(kind, merged, lv.pbot, lv.size,
                                    Row(parts[name], lv.i))
            IN  IF r.err # "none"
                THEN Raise(r.err) /\ UNCHANGED <<merged, lv>>
                ELSE /\ merged' = r.merged
                     /\ lv' = [lv EXCEPT !.pbot = r.pbot, !.size = r.size, !.i = @ + 1]
                     /\ Goto(pc)
       ELSE /\ merged' = merged
            /\ lv' = [lv EXCEPT !.i = 0]
            /\ Goto(next)
    /\ UNCHANGED mgFrame

\* lines 1087-1096
TropStart ==
    /\ unit = "merge"
    /\ mg_pc = "trop"
    /\ IF lv.num_trop_levels >= 1 \/ lv.num_above_trop_levels >= 1
       THEN LET r == pbot_start(merged, "TRPA")
            IN  IF r.err # "none"
                THEN Raise(r.err) /\ UNCHANGED lv
                ELSE lv' = [lv EXCEPT !.pbot = r.pbot] /\ Goto("trpa")
       ELSE Goto("trpa") /\ UNCHANGED lv
    /\ UNCHANGED merged
    /\ UNCHANGED mgFrame

\* lines 1098-1124
MergeTRPA == PressureLoop("trpa", "TRPA", "trop", lv.num_trop_levels >= 1, "trpc")

\* lines 1126-1152
MergeTRPC == PressureLoop("trpc", "TRPC", "trop", lv.num_above_trop_levels >= 1, "sigt")

\* lines 1154-1163
SigtStart ==
    /\ unit = "merge"
    /\ mg_pc = "sigt"
    /\ IF lv.num_sigt_levels >= 1 \/ lv.num_above_sigt_levels >= 1
       THEN LET r == pbot_start(merged, "TTBB")
            IN  IF r.err # "none"
                THEN Raise(r.err) /\ UNCHANGED lv
                ELSE lv' = [lv EXCEPT !.pbot = r.pbot] /\ Goto("ttbb")
       ELSE Goto("ttbb") /\ UNCHANGED lv
    /\ UNCHANGED merged
    /\ UNCHANGED mgFrame

\* lines 1165-1187
MergeTTBB == PressureLoop("ttbb", "TTBB", "sigt", lv.num_sigt_levels >= 1, "ttdd")

\* lines 1189-1214
MergeTTDD ==
    PressureLoop("ttdd", "TTDD", "sigt_above", lv.num_above_sigt_levels >= 1, "moist_height")

\* an interpolator runs at pc: it fills what fill gives, or nothing; on
\* lists of unequal lengths it may also fail
Interpolate(pc, filled, next) ==
    /\ unit = "merge"
    /\ mg_pc = pc
    /\ IF EqualLengths(merged)
       THEN merged' \in interp_results(merged, filled) /\ Goto(next)
       ELSE \E fails \in BOOLEAN :
                IF fails THEN Raise("IndexError") /\ UNCHANGED merged
                ELSE merged' = merged /\ Goto(next)
    /\ UNCHANGED lv
    /\ UNCHANGED mgFrame

\* line 1217
InterpMoistHeight == Interpolate("moist_height", fill_height(merged), "sigw")

\* lines 1219-1227
SigwStart ==
    /\ unit = "merge"
    /\ mg_pc = "sigw"
    /\ IF /\ ~lv.ppbb_is_z \/ ~lv.ppdd_is_z
          /\ lv.num_sigw_levels >= 1 \/ lv.num_above_sigw_levels >= 1
       THEN lv' = [lv EXCEPT !.pbot = pbot_start_wind(merged)]
       ELSE lv' = lv
    /\ Goto("ppbb")
    /\ UNCHANGED merged
    /\ UNCHANGED mgFrame

\* lines 1229-1253
MergePPBB ==
    PressureLoop("ppbb", "PPBB", "wind",
                 (~lv.ppbb_is_z \/ ~lv.ppdd_is_z) /\ lv.num_sigw_levels >= 1
                     /\ ~lv.ppbb_is_z,
                 "ppdd")

\* lines 1255-1279
MergePPDD ==
    PressureLoop("ppdd", "PPDD", "wind",
                 (~lv.ppbb_is_z \/ ~lv.ppdd_is_z) /\ lv.num_above_sigw_levels >= 1
                     /\ ~lv.ppdd_is_z,
                 "mxw")

\* lines 1281-1288
MaxWindStart ==
    /\ unit = "merge"
    /\ mg_pc = "mxw"
    /\ IF lv.num_max_wind_levels >= 1 \/ lv.num_above_max_wind_levels >= 1
       THEN lv' = [lv EXCEPT !.pbot = pbot_start_wind(merged)]
       ELSE lv' = lv
    /\ Goto("mxwa")
    /\ UNCHANGED merged
    /\ UNCHANGED mgFrame

\* lines 1290-1314
MergeMXWA == PressureLoop("mxwa", "MXWA", "wind", lv.num_max_wind_levels >= 1, "mxwc")

\* lines 1316-1340
MergeMXWC ==
    PressureLoop("mxwc", "MXWC", "wind", lv.num_above_max_wind_levels >= 1, "logp_height")

\* line 1343
InterpLogpHeight == Interpolate("logp_height", fill_height(merged), "zstart")

\* lines 1345-1385: the height-keyed merge is set up
HeightStart ==
    /\ unit = "merge"
    /\ mg_pc = "zstart"
    /\ IF lv.ppbb_is_z \/ lv.ppdd_is_z
       THEN LET nsgw == IF lv.ppbb_is_z THEN lv.num_sigw_levels ELSE 0
                nasw == IF lv.ppdd_is_z THEN lv.num_above_sigw_levels ELSE 0
            IN  \* line 1349-1350 reads parts['PPBB']['HGHT'][0]
                IF ~lv.ppbb_is_z
                THEN Raise("KeyError") /\ UNCHANGED lv
                ELSE IF nsgw = 0
                THEN Raise("IndexError") /\ UNCHANGED lv
                ELSE LET hght0 == parts["PPBB"]["HGHT"][1]
                         istart == IF (nsgw >= 1 /\ hght0 = 0) \/ hght0 = merged.HGHT[1]
                                   THEN 1 ELSE 0
                         size == Len(merged.HGHT)
                         psfc == merged.PRES[1]
                         zsfc == merged.HGHT[1]
                         from0 == size >= 2 /\ psfc # MISSING /\ zsfc # MISSING
                         from1 == ~from0 /\ size >= 3
                         zold == IF from0 THEN merged.HGHT[1]
                                 ELSE IF from1 THEN merged.HGHT[2] ELSE MISSING
                         znxt == IF from0 THEN merged.HGHT[2]
                                 ELSE IF from1 THEN merged.HGHT[3] ELSE MISSING
                         ilev == IF from0 THEN 1 ELSE IF from1 THEN 2 ELSE lv.ilev
                         more == (from0 \/ from1) /\ zold # MISSING /\ znxt # MISSING
                     IN  /\ lv' = [lv EXCEPT !.nsgw = nsgw, !.nasw = nasw,
                                             !.istart = istart, !.size = size,
                                             !.zold = zold, !.znxt = znxt,
                                             !.ilev = ilev, !.more = more,
                                             !.above = ~(istart <= nsgw),
                                             !.i = IF istart <= nsgw THEN istart ELSE 0,
                                             !.iend = IF istart <= nsgw THEN nsgw
                                                      ELSE nasw]
                         /\ Goto("zloop")
       ELSE Goto("logp_pressure") /\ UNCHANGED lv
    /\ UNCHANGED merged
    /\ UNCHANGED mgFrame

\* lines 1411-1419: the cursor moves up to the source height
RECURSIVE advance(_, _, _)
advance(mg, hght, c) ==
    IF c.more /\ hght > c.znxt
    THEN LET ilev == c.ilev + 1
         IN  IF ilev >= c.size
             THEN advance(mg, hght, [c EXCEPT !.zold = c.znxt, !.ilev = ilev,
                                              !.more = FALSE])
             ELSE advance(mg, hght, [c EXCEPT !.zold = c.znxt, !.ilev = ilev,
                                              !.znxt = mg.HGHT[ilev + 1],
                                              !.more = mg.HGHT[ilev + 1] # MISSING])
    ELSE c

\* lines 1388-1442: one entry of the height-keyed merge
height_entry(mg, c, src) ==
    LET unset == mg.DRCT[c.ilev] = MISSING \/ mg.SPED[c.ilev] = MISSING
        blank == src.HGHT = MISSING /\ src.DRCT = MISSING /\ src.SPED = MISSING
        at_zold == ~blank /\ abs(c.zold - src.HGHT) < 1
        below == ~blank /\ ~at_zold /\ src.HGHT <= c.zold
        skip == blank \/ at_zold \/ below
        \* lines 1402-1407
        mg1 == IF at_zold /\ unset
               THEN [mg EXCEPT !.DRCT[c.ilev] = src.DRCT, !.SPED[c.ilev] = src.SPED]
               ELSE mg
        \* lines 1410-1419
        c1 == IF ~skip /\ src.HGHT >= c.znxt THEN advance(mg1, src.HGHT, c) ELSE c
        \* lines 1421-1435
        place == c1.more /\ ~skip
        at_znxt == place /\ abs(c1.znxt - src.HGHT) < 1
        mg2 == IF at_znxt
               THEN IF mg1.DRCT[c1.ilev] = MISSING \/ mg1.SPED[c1.ilev] = MISSING
                    THEN [mg1 EXCEPT !.DRCT[c1.ilev + 1] = src.DRCT,
                                     !.SPED[c1.ilev + 1] = src.SPED]
                    ELSE mg1
               ELSE IF place
               THEN insert_level(mg1, bisect_left(mg1.HGHT, src.HGHT),
                                 [HGHT |-> src.HGHT, DRCT |-> src.DRCT,
                                  SPED |-> src.SPED, PRES |-> MISSING,
                                  TEMP |-> MISSING, DWPT |-> MISSING])
               ELSE mg1
        c2 == IF place /\ ~at_znxt THEN [c1 EXCEPT !.size = @ + 1] ELSE c1
        \* lines 1437-1442
        c3 == IF ~c2.above /\ c2.i = c2.nsgw - 1
              THEN [c2 EXCEPT !.above = TRUE, !.i = 0, !.iend = c2.nasw]
              ELSE [c2 EXCEPT !.i = @ + 1]
    IN  [merged |-> mg2, lv |-> c3]

\* lines 1387-1442: one iteration of the while loop, or its end
MergeHeights ==
    /\ unit = "merge"
    /\ mg_pc = "zloop"
    /\ IF lv.more /\ lv.i < lv.iend
       THEN LET name == IF lv.above THEN "PPDD" ELSE "PPBB"
                r == height_entry(merged, lv, Row(parts[name], lv.i))
            IN  /\ merged' = r.merged
                /\ lv' = r.lv
                /\ Goto("zloop")
       ELSE /\ merged' = merged
            /\ lv' = lv
            /\ Goto("logp_pressure")
    /\ UNCHANGED mgFrame

\* line 1445
InterpLogpPressure == Interpolate("logp_pressure", fill_pressure(merged), "logp_data")

\* line 1448
InterpLogpData == Interpolate("logp_data", fill_data(merged), "below_ground")

\* lines 1450-1453
BelowGroundStart ==
    /\ unit = "merge"
    /\ mg_pc = "below_ground"
    /\ IF merged.PRES[1] # MISSING /\ lv.bgl > 0
       THEN lv' = [lv EXCEPT !.i = 1] /\ Goto("bgl")
       ELSE lv' = lv /\ Goto("done")
    /\ UNCHANGED merged
    /\ UNCHANGED mgFrame

\* lines 1453-1463: one mandatory level of TTAA, or the loop's end and the
\* return of line 1465
BelowGround ==
    /\ unit = "merge"
    /\ mg_pc = "bgl"
    /\ IF lv.i < lv.num_man_levels
       THEN LET row == Row(parts["TTAA"], lv.i)
            IN  IF row.PRES > merged.PRES[1]
                THEN IF lv.size = Unbound
                     THEN Raise("UnboundLocalError") /\ UNCHANGED <<merged, lv>>
                     ELSE LET loc == loc_by_pressure(Rest(merged.PRES), lv.size,
                                                     row.PRES)
                          IN  /\ merged' = insert_level(merged, loc, row)
                              /\ lv' = [lv EXCEPT !.size = @ + 1, !.i = @ + 1]
                              /\ Goto("bgl")
                ELSE /\ merged' = merged
                     /\ lv' = [lv EXCEPT !.i = @ + 1]
                     /\ Goto("bgl")
       ELSE /\ merged' = merged
            /\ lv' = lv
            /\ Goto("done")
    /\ UNCHANGED mgFrame

NextMerge ==
    \/ MergeCounts
    \/ SeedSurface
    \/ FirstManP
    \/ ValidateSurface
    \/ SigtSurface
    \/ SigwSurface
    \/ ManStart
    \/ MergeTTAA
    \/ MergeTTCC
    \/ MergePPAA
    \/ MergePPCC
    \/ TropStart
    \/ MergeTRPA
    \/ MergeTRPC
    \/ SigtStart
    \/ MergeTTBB
    \/ MergeTTDD
    \/ InterpMoistHeight
    \/ SigwStart
    \/ MergePPBB
    \/ MergePPDD
    \/ MaxWindStart
    \/ MergeMXWA
    \/ MergeMXWC
    \/ InterpLogpHeight
    \/ HeightStart
    \/ MergeHeights
    \/ InterpLogpPressure
    \/ InterpLogpData
    \/ BelowGroundStart
    \/ BelowGround


(***************************************************************************)
(* GempakFile._convert_ftime (decode.py 350-360), the decoder of the       *)
(* forecast-time column-header fields GTM1 and GTM2, and the valid time    *)
(* GempakGrid.to_xarray computes from its result (734-736).  A timedelta   *)
(* and a datetime are modelled by their length, or distance from an epoch, *)
(* in minutes.                                                             *)
(***************************************************************************)
\* class ForecastType, lines 99-105
ForecastType ==
    [c \in 0 .. 3 |->
        CASE c = 0 -> "analysis" [] c = 1 -> "forecast" [] c = 2 -> "guess"
          [] OTHER -> "initial"]

\* timedelta(hours=h, minutes=m)
timedelta(h, m) == 60 * h + m

\* what a header field holds: None, or the pair (name, timedelta)
None == [none |-> TRUE, name |-> "", delta |-> 0]
Pair(name, delta) == [none |-> FALSE, name |-> name, delta |-> delta]

FtimeKinds == DOMAIN ForecastType
FtimeHours == {0, 1, 12, 240, 999, 1000}
FtimeMinutes == {0, 30, 59, 99}
InitTimes == {0, 1440}

IdleFtime ==
    /\ ft_written = <<>>
    /\ ftime = 0
    /\ GTM1 = None
    /\ GDT1 = 0
    /\ valid = 0
    /\ ft_pc = "idle"
    /\ ft_err = "none"

\* the packed integer as the file's writer made it, before it is decoded
InitFtimeVars ==
    /\ ft_written \in [kind : FtimeKinds, hours : FtimeHours, minutes : FtimeMinutes]
    /\ ftime = ft_written.kind * 100000 + ft_written.hours * 100 + ft_written.minutes
    /\ GTM1 = None
    /\ GDT1 \in InitTimes
    /\ valid = 0
    /\ ft_pc = "convert"
    /\ ft_err = "none"

ftFrame == <<unit, ft_written, ftime, GDT1, notFtime>>

\* lines 351-360; err is the exception ForecastType(...) raises
convert_ftime(f) ==
    IF f # 0
    THEN LET code == f \div 100000
         IN  IF code \notin DOMAIN ForecastType
             THEN [err |-> "ValueError", out |-> None]
             ELSE LET iftime == f - code * 100000
                      hours == iftime \div 100
                      minutes == iftime - hours * 100
                  IN  [err |-> "none",
                       out |-> Pair(ForecastType[code], timedelta(hours, minutes))]
    ELSE [err |-> "none", out |-> None]

\* line 500: the column header's GTM1 is the converter's result
ConvertFtime ==
    /\ unit = "ftime"
    /\ ft_pc = "convert"
    /\ LET r == convert_ftime(ftime)
       IN  /\ GTM1' = r.out
           /\ ft_err' = r.err
           /\ ft_pc' = IF r.err = "none" THEN "converted" ELSE "error"
    /\ UNCHANGED valid
    /\ UNCHANGED ftFrame

\* lines 734-736: ftype, ftime = col_head.GTM1; valid = init + ftime
ValidTime ==
    /\ unit = "ftime"
    /\ ft_pc = "converted"
    /\ IF GTM1.none
       THEN ft_pc' = "error" /\ ft_err' = "TypeError" /\ UNCHANGED valid
       ELSE ft_pc' = "done" /\ valid' = GDT1 + GTM1.delta /\ UNCHANGED ft_err
    /\ UNCHANGED GTM1
    /\ UNCHANGED ftFrame

NextFtime == ConvertFtime \/ ValidTime

(***************************************************************************)
(* The data pointer of a cell: GempakGrid.to_xarray (decode.py 719-727)    *)
(* and GempakSounding._unpack_merged (811-829), after the row and column   *)
(* header scans of __init__ (485-508, 779-805).  The archive is its two    *)
(* header tables and its data pointer table, one word per (row slot,       *)
(* column slot, part).                                                     *)
(***************************************************************************)
MaxRowSlots == 2
MaxParts == 2
DataBlockPtrs == {50}
Methods == {"to_xarray", "_unpack_merged"}

\* the word the file holds at word address a of the data pointer table
PointerWord(a) == 1000 + a

\* lines 490-492 and 506-508: the headers the scan of a table emits, from
\* cursor pos (in words) with n of nslots iterations done
RECURSIVE scan_headers(_, _, _, _, _)
scan_headers(table, pos, n, nslots, nkeys) ==
    IF n = nslots THEN <<>>
    ELSE IF read_int_is(table[pos + 1], USED_FLAG)
    THEN <<read_struct(table, pos + 1, nkeys)>>
            \o scan_headers(table, pos + 1 + nkeys, n + 1, nslots, nkeys)
    ELSE scan_headers(table, pos + 1, n + 1, nslots, nkeys)

IdleCells ==
    /\ ce_file = <<>>
    /\ method = "none"
    /\ row_headers = <<>>
    /\ column_headers = <<>>
    /\ cur = <<>>
    /\ pointer = 0
    /\ data_ptr = 0
    /\ ce_pc = "idle"

InitCellsVars ==
    /\ \E rows \in 1 .. MaxRowSlots, columns \in 1 .. MaxSlots, nparts \in 1 .. MaxParts,
          ptr \in DataBlockPtrs :
         \E rt \in Tables(0, rows, 1), ct \in Tables(0, columns, 1) :
            ce_file = [rows |-> rows, columns |-> columns, parts |-> nparts,
                       data_block_ptr |-> ptr, row_table |-> rt, column_table |-> ct]
    /\ method \in Methods
    /\ row_headers = <<>>
    /\ column_headers = <<>>
    /\ cur = [icol |-> 0, irow |-> 0, iprt |-> 0]
    /\ pointer = 0
    /\ data_ptr = 0
    /\ ce_pc = "scan"

ceFrame == <<unit, ce_file, method, notCells>>

\* lines 485-508: both tables are scanned
ScanHeaders ==
    /\ unit = "cells"
    /\ ce_pc = "scan"
    /\ row_headers' = scan_headers(ce_file.row_table, 0, 0, ce_file.rows, 1)
    /\ column_headers' = scan_headers(ce_file.column_table, 0, 0, ce_file.columns, 1)
    /\ ce_pc' = IF row_headers' = <<>> \/ column_headers' = <<>> THEN "done" ELSE "cells"
    /\ UNCHANGED <<cur, pointer, data_ptr>>
    /\ UNCHANGED ceFrame

\* lines 722-724 (825-827)
cell_pointer(irow, icol, iprt) ==
    ce_file.data_block_ptr + (irow * ce_file.columns * ce_file.parts)
        + (icol * ce_file.parts + iprt)

\* the loop nest of lines 719-721 (columns, rows, parts) or 812-822 (rows,
\* columns, parts): the indices after c, or done
next_cell(c) ==
    LET nrow == Len(row_headers)
        ncol == Len(column_headers)
        inner == IF method = "to_xarray" THEN c.irow ELSE c.icol
        outer == IF method = "to_xarray" THEN c.icol ELSE c.irow
        ninner == IF method = "to_xarray" THEN nrow ELSE ncol
        nouter == IF method = "to_xarray" THEN ncol ELSE nrow
        at(o, i, p) == IF method = "to_xarray"
                       THEN [icol |-> o, irow |-> i, iprt |-> p]
                       ELSE [icol |-> i, irow |-> o, iprt |-> p]
    IN  IF c.iprt + 1 < ce_file.parts THEN [done |-> FALSE, cur |-> at(outer, inner, c.iprt + 1)]
        ELSE IF inner + 1 < ninner THEN [done |-> FALSE, cur |-> at(outer, inner + 1, 0)]
        ELSE IF outer + 1 < nouter THEN [done |-> FALSE, cur |-> at(outer + 1, 0, 0)]
        ELSE [done |-> TRUE, cur |-> c]

\* lines 722-726 (825-828): the pointer of the cell at cur is computed and
\* the word there is read
ReadPointer ==
    /\ unit = "cells"
    /\ ce_pc = "cells"
    /\ pointer' = cell_pointer(cur.irow, cur.icol, cur.iprt)
    /\ data_ptr' = PointerWord(pointer')
    /\ LET n == next_cell(cur)
       IN  /\ cur' = n.cur
           /\ ce_pc' = IF n.done THEN "done" ELSE "cells"
    /\ UNCHANGED <<row_headers, column_headers>>
    /\ UNCHANGED ceFrame

NextCells == ScanHeaders \/ ReadPointer

(***************************************************************************)
(* The per-part parameter table: GempakFile.__init__ (decode.py 302-315)   *)
(* after _swap_bytes (317-329).  An archive and its byte-swapped twin, the *)
(* same content written in either byte order, are decoded side by side on  *)
(* one host.                                                               *)
(***************************************************************************)
\* line 27-28; a format code is the sequence of its characters
PARAM_ATTR ==
    << <<"name", <<4, <<"s">> >> >>, <<"scale", <<1, <<"i">> >> >>,
       <<"offset", <<1, <<"i">> >> >>, <<"bits", <<1, <<"i">> >> >> >>

\* 'PRES', 'TEMP' as code points
ParamNames == {<<80, 82, 69, 83>>, <<84, 69, 77, 80>>}
ParamScales == {0, 2}
ParamOffsets == {0, -5}
ParamBits == {12}
Params == [name : ParamNames, scale : ParamScales, offset : ParamOffsets, bits : ParamBits]

\* the parameter lists of the parts of an archive
PartTables ==
    LET one == CHOOSE p \in Params : p.name = <<80, 82, 69, 83>> /\ p.scale = 2
                                     /\ p.offset = -5
    IN  {<< <<q>> >> : q \in Params}
          \cup {<< <<>>, <<q>> >> : q \in Params}
          \cup {<< <<one, q>> >> : q \in Params}
          \cup {<< <<one>>, <<q>> >> : q \in Params}

\* bytes and str are different types: a text value carries which one it is
Bytes(b) == [type |-> "bytes", chars |-> b]
Str(b) == [type |-> "str", chars |-> b]
\* bytes.decode() of ASCII bytes
decode(v) == Str(v.chars)

\* the words of the parameter area as the file holds them, in the order
\* lines 308-310 read them: per attribute, per part, per parameter
RECURSIVE Flatten(_)
Flatten(ss) == IF Len(ss) = 0 THEN <<>> ELSE Head(ss) \o Flatten(Tail(ss))

ParamArea(content, order) ==
    LET column(a) ==
            Flatten([n \in 1 .. Len(content) |->
                        [k \in 1 .. Len(content[n]) |->
                            IF a = "name" THEN content[n][k].name
                            ELSE pack_i(content[n][k][a], order)]])
    IN  column("name") \o column("scale") \o column("offset") \o column("bits")

IdleParams ==
    /\ pa_content = <<>>
    /\ byteorder = "little"
    /\ twin = <<>>

InitParamsVars ==
    /\ pa_content \in PartTables
    /\ byteorder \in Orders
    /\ twin = [o \in Orders |->
                 [version |-> pack_i(1, o), area |-> ParamArea(pa_content, o),
                  pc |-> "swap", swaped_bytes |-> FALSE, prefmt |-> <<>>,
                  endian |-> "unset", parameters |-> <<>>]]

paFrame == <<unit, pa_content, byteorder, notParams>>

\* lines 317-329: prefmt and endian for a file whose version word is binary
prefmt_of(binary) ==
    IF pack_i(1, byteorder) # binary
    THEN IF byteorder = "little" THEN [prefmt |-> <<">">>, endian |-> "big"]
         ELSE [prefmt |-> <<"<">>, endian |-> "little"]
    ELSE [prefmt |-> <<>>, endian |-> byteorder]

\* _swap_bytes on the twin written in order o
SwapBytesOf(o) ==
    /\ unit = "params"
    /\ twin[o].pc = "swap"
    /\ LET r == prefmt_of(twin[o].version)
       IN  twin' = [twin EXCEPT ![o].swaped_bytes = pack_i(1, byteorder) # twin[o].version,
                                ![o].prefmt = r.prefmt,
                                ![o].endian = r.endian,
                                ![o].pc = "params"]
    /\ UNCHANGED paFrame

\* IOBuffer.read_binary(num, fmt) on word w: the list struct.unpack gives
\* for num items of the format's type in the format's byte order, native
\* when the format names none
read_binary(w, num, fmt) ==
    LET order == IF Head(fmt) = ">" THEN "big"
                 ELSE IF Head(fmt) = "<" THEN "little"
                 ELSE byteorder
        type == fmt[Len(fmt)]
    IN  IF type = "s" THEN <<Bytes(w)>> ELSE <<unpack_i(w, order)>>

\* lines 311-315: what reading one parameter's attribute adds to the list
read_attribute(w, num, fmt) ==
    IF fmt = <<"s">>
    THEN <<decode(read_binary(w, num, fmt)[1])>>
    ELSE read_binary(w, num, fmt)

\* lines 306-315: the parameter dicts of all parts, read from area with
\* the prefix prefmt
read_parameters(area, pre) ==
    LET counts == [n \in 1 .. Len(pa_content) |-> Len(pa_content[n])]
        total == Len(area) \div 4
        before(n) == Len(Flatten(SubSeq(pa_content, 1, n - 1)))
        word(a, n, k) == area[(a - 1) * total + before(n) + k]
    IN  [n \in 1 .. Len(pa_content) |->
            [attr \in {PARAM_ATTR[a][1] : a \in 1 .. 4} |->
                LET a == CHOOSE x \in 1 .. 4 : PARAM_ATTR[x][1] = attr
                    fmt == pre \o PARAM_ATTR[a][2][2]
                IN  Flatten([k \in 1 .. counts[n] |->
                                read_attribute(word(a, n, k), PARAM_ATTR[a][2][1], fmt)])]]

\* lines 302-315 on the twin written in order o
ReadParameters(o) ==
    /\ unit = "params"
    /\ twin[o].pc = "params"
    /\ twin' = [twin EXCEPT ![o].parameters = read_parameters(twin[o].area, twin[o].prefmt),
                            ![o].pc = "done"]
    /\ UNCHANGED paFrame

NextParams == \E o \in Orders : SwapBytesOf(o) \/ ReadParameters(o)

(***************************************************************************)
(* Specifications                                                          *)
(***************************************************************************)
InitShift ==
    /\ unit = "ishift"
    /\ InitShiftVars /\ IdleUnpack /\ IdleScan /\ IdleHeader /\ IdleGrid
    /\ IdleMerge /\ IdleFtime /\ IdleCells /\ IdleParams
InitUnpack ==
    /\ unit = "unpack"
    /\ IdleShift /\ InitUnpackVars /\ IdleScan /\ IdleHeader /\ IdleGrid
    /\ IdleMerge /\ IdleFtime /\ IdleCells /\ IdleParams
InitScan ==
    /\ unit = "scan"
    /\ IdleShift /\ IdleUnpack /\ InitScanVars /\ IdleHeader /\ IdleGrid
    /\ IdleMerge /\ IdleFtime /\ IdleCells /\ IdleParams
InitHeader ==
    /\ unit = "header"
    /\ IdleShift /\ IdleUnpack /\ IdleScan /\ InitHeaderVars /\ IdleGrid
    /\ IdleMerge /\ IdleFtime /\ IdleCells /\ IdleParams
InitGrid ==
    /\ unit = "grid"
    /\ IdleShift /\ IdleUnpack /\ IdleScan /\ IdleHeader /\ InitGridVars
    /\ IdleMerge /\ IdleFtime /\ IdleCells /\ IdleParams
InitMerge ==
    /\ unit = "merge"
    /\ IdleShift /\ IdleUnpack /\ IdleScan /\ IdleHeader /\ IdleGrid
    /\ InitMergeVars /\ IdleFtime /\ IdleCells /\ IdleParams
InitFtime ==
    /\ unit = "ftime"
    /\ IdleShift /\ IdleUnpack /\ IdleScan /\ IdleHeader /\ IdleGrid
    /\ IdleMerge /\ InitFtimeVars /\ IdleCells /\ IdleParams
InitCells ==
    /\ unit = "cells"
    /\ IdleShift /\ IdleUnpack /\ IdleScan /\ IdleHeader /\ IdleGrid
    /\ IdleMerge /\ IdleFtime /\ InitCellsVars /\ IdleParams
InitParams ==
    /\ unit = "params"
    /\ IdleShift /\ IdleUnpack /\ IdleScan /\ IdleHeader /\ IdleGrid
    /\ IdleMerge /\ IdleFtime /\ IdleCells /\ InitParamsVars

SpecShift == InitShift /\ [][NextShift]_vars
SpecUnpack == InitUnpack /\ [][NextUnpack]_vars
SpecScan == InitScan /\ [][NextScan]_vars
SpecHeader == InitHeader /\ [][NextHeader]_vars
SpecGrid == InitGrid /\ [][NextGrid]_vars
SpecMerge == InitMerge /\ [][NextMerge]_vars
SpecFtime == InitFtime /\ [][NextFtime]_vars
SpecCells == InitCells /\ [][NextCells]_vars
SpecParams == InitParams /\ [][NextParams]_vars

Init ==
    \/ InitShift \/ InitUnpack \/ InitScan \/ InitHeader \/ InitGrid
    \/ InitMerge \/ InitFtime \/ InitCells \/ InitParams
Next ==
    \/ NextShift \/ NextUnpack \/ NextScan \/ NextHeader \/ NextGrid
    \/ NextMerge \/ NextFtime \/ NextCells \/ NextParams
Spec == Init /\ [][Next]_vars

(***************************************************************************)
(* Properties                                                              *)
(***************************************************************************)

\* ---- _unpack_real

\* ceil(n / 32)
CeilDiv32(n) == CHOOSE c \in 0 .. n : 32 * c >= n /\ 32 * (c - 1) < n

\* the bit at offset o of the bit stream of packed group g: the words of the
\* group in order, each read from its least significant bit
StreamBit(g, o) == (o % 32) \in buffer[g * pwords + (o \div 32) + 1]

\* the running bit offset of parameter k: the widths of those before it
BitOffset(k) == SumSeq(SubSeq(parameters.bits, 1, k - 1))

\* the unsigned value of the bits of parameter k in group g
ExpectedRaw(g, k) ==
    {q \in 0 .. (parameters.bits[k] - 1) : StreamBit(g, BitOffset(k) + q)}

\* 2^bits - 1
AllOnes(bits) == 0 .. (bits - 1)

\* parameter k of group g has been decoded
Filled(g, k) ==
    /\ up_pc \in {"loop", "done"}
    /\ g < up_i \/ (g = up_i /\ k <= idata)

Groups == 0 .. (npack - 1)
Parms == 1 .. nparms

\* C6: pwords is ceil(sum of bit widths / 32); _unpack_real fails, with the
\* length-mismatch error and no other, exactly when the declared length is not a
\* multiple of pwords; otherwise it returns (length / pwords) * nparms values,
\* entry g * nparms + k being parameter k of packed group g.
C6_LengthCheck ==
    up_pc # "start" =>
        /\ pwords = CeilDiv32(SumSeq(parameters.bits))
        /\ (up_pc = "error") <=> (length % pwords # 0)
        /\ up_pc = "error" => up_err = "Unpacking length mismatch."
        /\ up_pc = "done" =>
            /\ Len(unpacked) = (length \div pwords) * nparms
            /\ \A g \in 0 .. ((length \div pwords) - 1), k \in Parms :
                LET out == unpacked[g * nparms + k]
                IN  /\ out # Unset
                    /\ ~out.miss => out.e = parameters.scale[k]
                    /\ ifields[g * nparms + k] = ExpectedRaw(g, k)

\* a run that returned more than one packed group of more than one parameter
C6_Witness ==
    /\ up_pc = "done"
    /\ nparms = 2
    /\ pwords = 1
    /\ length = 2
    /\ Len(unpacked) = 4

\* a run that failed the length test
C6_WitnessError ==
    /\ up_pc = "error"
    /\ pwords = 2
    /\ length = 1

\* C7: every raw field extracted is the unsigned value of the `bits` bits at the
\* running bit offset of its group's words, least significant bit first,
\* whatever the words' top bits and also across a word boundary.
C7_FieldBits ==
    \A g \in Groups, k \in Parms :
        Filled(g, k) => ifields[g * nparms + k] = ExpectedRaw(g, k)

\* a 32-bit field that straddles two words whose top bits are set, extracted
\* with bits of both
C7_Witness ==
    /\ up_pc = "done"
    /\ npack >= 1
    /\ nparms = 2
    /\ parameters.bits = <<20, 32>>
    /\ IsNeg(buffer[1]) /\ IsNeg(buffer[2])
    /\ buffer[1] # buffer[2]
    /\ ifields[2] \cap (0 .. 11) # {}
    /\ ifields[2] \cap (12 .. 31) # {}
    /\ ifields[2] # AllOnes(32)

\* C8: a raw field of all ones (2^bits - 1, width 32 included) decodes to the
\* missing sentinel, every other raw field to (raw + offset) * 10^scale, and the
\* missing test chooses the sentinel for no other raw value.
C8_MissingAndScale ==
    \A g \in Groups, k \in Parms :
        Filled(g, k) =>
            LET raw == ExpectedRaw(g, k)
                out == unpacked[g * nparms + k]
            IN  /\ out.miss <=> (raw = AllOnes(parameters.bits[k]))
                /\ out.miss => (out.m = PyInt(MISSING) /\ out.e = 0)
                /\ ~out.miss =>
                    /\ out.m = PyAdd(raw, PyInt(parameters.offset[k]))
                    /\ out.e = parameters.scale[k]

\* a 32-bit all-ones field decoded to the sentinel beside a field that was scaled
C8_Witness ==
    /\ up_pc = "done"
    /\ npack >= 1
    /\ nparms = 2
    /\ parameters.bits = <<32, 32>>
    /\ parameters.offset[2] = -5
    /\ ifields[1] = AllOnes(32)
    /\ unpacked[1].miss
    /\ ~unpacked[2].miss
    /\ unpacked[2].m = PyAdd(ifields[2], PyInt(-5))

\* ---- _fortran_ishift

\* the 32-bit logical shift of a bit pattern: left for s > 0, right for s < 0
LogicalShift32(pat, s) == {p + s : p \in {q \in pat : q + s \in WordPos}}

\* a value of the signed 32-bit range: every higher bit repeats bit 31
InSigned32(r) ==
    \A p \in BitPos : p >= WordBits => (p \in r <=> (WordBits - 1) \in r)

\* C9: the low 32 bits of _fortran_ishift(i, s) are the 32-bit logical shift of
\* i's bit pattern; a left shift returns a value of the signed 32-bit range; a
\* right shift of a negative value returns a value in 0 .. 2^(32-|s|) - 1.
C9_IshiftLogical ==
    sh_pc = "done" =>
        /\ sh_shifted \cap WordPos = LogicalShift32(sh_i \cap WordPos, sh_shift)
        /\ sh_shift > 0 => InSigned32(sh_shifted)
        /\ (sh_shift < 0 /\ IsNeg(sh_i)) =>
                sh_shifted \subseteq (0 .. (WordBits - 1 + sh_shift))

\* -1 shifted right by 4 gives 0x0fffffff
C9_Witness ==
    /\ sh_pc = "done"
    /\ sh_i = Signed(WordPos)
    /\ sh_shift = -4
    /\ sh_shifted = 0 .. 27

\* the headers a table holds: the field words of every slot whose flag is
\* USED_FLAG, in slot order
RECURSIVE UsedSlotHeaders(_, _, _, _)
UsedSlotHeaders(table, s, nslots, nkeys) ==
    IF s = nslots THEN <<>>
    ELSE LET base == s * (nkeys + 1)
         IN  (IF table[base + 1] = USED_FLAG
              THEN <<SubSeq(table, base + 2, base + 1 + nkeys)>>
              ELSE <<>>) \o UsedSlotHeaders(table, s + 1, nslots, nkeys)

\* C3: when the scan of a table of N slots ends, the headers are exactly the
\* field words of the slots whose flag word is 9999, one header per such
\* slot and none for any other, in slot order.
C3_ScanEmitsUsedSlots ==
    sc_pc = "done" => headers = UsedSlotHeaders(sc_table, 0, sc_slots, sc_keys)

\* C4: a buffer whose first 28 bytes are not the magic text fails with the
\* format error, and the magic text is the only thing read before that.
C4_BadMagicFormatError ==
    (hd_pc # "magic" /\ hd_pc # "idle" /\ hd_file.magic # GEMPAK_HEADER)
        => /\ hd_pc = "error"
           /\ hd_err = FormatError
           /\ hd_reads = <<"GempakHeader">>

HeaderEnded == hd_pc \in {"done", "error"} /\ hd_file.magic = GEMPAK_HEADER
SizeReads == {k \in 1 .. Len(hd_reads) : hd_reads[k] \in {"navb_size", "anlb_size"}}

\* C5: with file_headers > 0, a navigation block size other than 256 or an
\* analysis block size other than 128 ends the decode with the block-size
\* error, and a selector other than 1 or 2 ends it without error and with no
\* analysis block; with file_headers <= 0 no block size is ever read and
\* both blocks are absent.
C5_BlockSizes ==
    unit = "header" =>
        LET w == hd_file.written
        IN  /\ (HeaderEnded /\ w.file_headers > 0 /\ w.navb_size # 256)
                  => hd_pc = "error" /\ hd_err = NavbError
            /\ (HeaderEnded /\ w.file_headers > 0 /\ w.navb_size = 256
                    /\ w.anlb_size # 128)
                  => hd_pc = "error" /\ hd_err = AnlbError
            /\ (HeaderEnded /\ w.file_headers > 0 /\ w.navb_size = 256
                    /\ w.anlb_size = 128 /\ w.anlb_type \notin {1, 2})
                  => /\ hd_pc = "done"
                     /\ hd_err = "none"
                     /\ analysis_block = "None"
                     /\ navigation_block = "NavigationBlock"
            /\ w.file_headers <= 0 => SizeReads = {}
            /\ (HeaderEnded /\ w.file_headers <= 0)
                  => /\ hd_pc = "done"
                     /\ analysis_block = "None"
                     /\ navigation_block = "None"

\* a byte-swapped file with both sizes right and selector 3, fully decoded
C5_Witness ==
    /\ unit = "header"
    /\ hd_pc = "done"
    /\ hd_file.written.file_headers > 0
    /\ hd_file.written.anlb_type = 3
    /\ hd_file.written.order # native
    /\ swaped_bytes
    /\ analysis_block = "None"
    /\ navigation_block = "NavigationBlock"

\* C10: a cell of packing type none whose payload length equals kx*ky and
\* exceeds 1 decodes to a ky x kx field with cell (j, i) = payload word
\* j*kx + i, masked exactly where the value is the missing float.
C10_NoneGrid ==
    (unit = "grid" /\ gr_pc \in {"done", "error"}
        /\ gr_file.packing_code = 0
        /\ Len(gr_file.payload) = kx * ky /\ Len(gr_file.payload) > 1)
    => /\ gr_pc = "done"
       /\ DOMAIN gr_data = 0 .. ky - 1
       /\ \A j \in 0 .. ky - 1 :
            /\ DOMAIN gr_data[j] = 0 .. kx - 1
            /\ DOMAIN gr_mask[j] = 0 .. kx - 1
            /\ \A i \in 0 .. kx - 1 :
                 /\ gr_data[j][i] = gr_file.payload[j * kx + i + 1]
                 /\ gr_mask[j][i] = (gr_data[j][i] = MISSING)

\* kx = ky = 2 with payload [1, 2, 3, 4] decoded to [[1, 2], [3, 4]], unmasked
C10_Witness ==
    /\ unit = "grid"
    /\ gr_pc = "done"
    /\ kx = 2 /\ ky = 2
    /\ gr_file.payload = <<1, 2, 3, 4>>
    /\ gr_data[0][0] = 1 /\ gr_data[0][1] = 2 /\ gr_data[1][0] = 3 /\ gr_data[1][1] = 4
    /\ \A j \in 0 .. 1 : \A i \in 0 .. 1 : ~gr_mask[j][i]

\* C1: after every step of the merge (the seed, every appended, filled or
\* inserted level, the below-ground levels) the lists PRES, HGHT, TEMP,
\* DWPT, DRCT and SPED of the profile have the same length.
C1_EqualLengths ==
    (unit = "merge" /\ mg_pc # "idle")
        => \A f \in Fields : \A g \in Fields : Len(merged[f]) = Len(merged[g])

\* C2: when the merge returns, PRES does not increase from one level to the
\* next, wherever neither of the two pressures is missing.
C2_PresNonIncreasing ==
    (unit = "merge" /\ mg_pc = "done")
        => \A k \in 1 .. Len(merged.PRES) - 1 :
              (merged.PRES[k] # MISSING /\ merged.PRES[k + 1] # MISSING)
                  => merged.PRES[k] >= merged.PRES[k + 1]

\* the payload length _unpack_grid computes for the cell's codec
Lendat ==
    gr_file.data_header_length - header_length
        - (CASE gr_file.packing_code = 0 -> 1
             [] gr_file.packing_code = 3 -> 8
             [] OTHER -> 6)

\* _unpack_grid has returned or raised
GridReturned == gr_pc \in {"mask", "done", "error"}

\* C11: for the none, diff and grib/dec codecs, a payload length lendat <= 1
\* (1, 0 or negative) makes _unpack_grid return "no data": no error is
\* raised and no field, zero-filled or partial, is returned.
C11_NoDataWhenShort ==
    (unit = "grid" /\ GridReturned
        /\ gr_file.packing_code \in NoneCodes \cup PackedCodes /\ Lendat <= 1)
    => gr_pc # "error" /\ grid.none

\* the row of the scenario: kx = 3, ky = 1, fields 10, 12, 11 of 4 bits,
\* reference 10, scale 1, diffmin 0
DiffRowScenario ==
    /\ unit = "grid"
    /\ gr_pc = "done"
    /\ gr_file.packing_code = 3
    /\ kx = 3 /\ ky = 1
    /\ gr_file.bits = 4 /\ gr_file.reference = 10
    /\ gr_file.scale = 1 /\ gr_file.diffmin = 0
    /\ Lendat > 1
    /\ gl.idats = <<10, 12, 11>>

\* C12 as stated: the diff-packed row of fields [10, 12, 11] with
\* reference 10, scale 1, diffmin 0, bits 4 decodes to [10, 12, 13].
C12_DiffRowStated ==
    DiffRowScenario
        => gr_data[0][0] = 10 /\ gr_data[0][1] = 12 /\ gr_data[0][2] = 13

\* C12: the diff-packed row of fields [10, 12, 11] with reference 10,
\* scale 1, diffmin 0, bits 4 decodes to [10, 22, 33]: the first cell is the
\* reference and each later cell adds diffmin + field * scale to the cell
\* before it.
C12_DiffRow ==
    DiffRowScenario
        => gr_data[0][0] = 10 /\ gr_data[0][1] = 22 /\ gr_data[0][2] = 33

C12_Witness ==
    /\ DiffRowScenario
    /\ gr_data[0][1] = 22
    /\ \A i \in 0 .. 2 : ~gr_mask[0][i]

\* bit o of the payload, counted from the most significant bit of word 0
PayloadBit(o) == (31 - (o % 32)) \in PyAnd(gr_file.payload[(o \div 32) + 1], mskpat)

\* the bits-wide field of cell k, read most significant bit first
PayloadField(k) ==
    LET b == gr_file.bits
        Bit(n) == IF PayloadBit(k * b + n) THEN Pow2(b - 1 - n) ELSE 0
        Sum[n \in 0 .. b] == IF n = b THEN 0 ELSE Bit(n) + Sum[n + 1]
    IN  Sum[0]

\* the cells the codec has decoded so far
Decoded == 0 .. (gl.cell - 1)

\* C13: for the grib and dec codecs with lendat > 1, the field of every
\* cell k is the bits consecutive bits at bit offset k * bits of the payload
\* read most significant bit first, across words and for words whose top
\* bit is set, and the cell is the missing float if the field is 2^bits - 1
\* and the missing flag is set, reference + field * scale otherwise; the
\* decode stops early only when a field reaches past the payload.
C13_GribCells ==
    (unit = "grid" /\ gr_file.packing_code \in {1, 4}
        /\ gr_pc \in {"cells", "mask", "done", "error"} /\ Lendat > 1)
    => /\ \A k \in Decoded :
            /\ gl.idats[k + 1] = PayloadField(k)
            /\ grid.values[k + 1] =
                   IF PayloadField(k) = Pow2(gr_file.bits) - 1
                          /\ gr_file.missing_flag # 0
                   THEN MISSING
                   ELSE gr_file.reference + PayloadField(k) * gr_file.scale
       /\ (gr_pc \in {"mask", "done"}) => gl.cell = gr_file.kxky
       /\ (gr_pc = "error" /\ gl.cell < gr_file.kxky)
              => (gl.cell + 1) * gr_file.bits > 32 * Lendat

\* three cells of 12 bits from 0xFFF12345...: a missing cell, a cell inside
\* a word whose top bit is set and a cell across two words
C13_Witness ==
    /\ unit = "grid"
    /\ gr_pc = "done"
    /\ gr_file.packing_code \in {1, 4}
    /\ gr_file.bits = 12
    /\ gr_file.missing_flag = 1
    /\ gl.cell >= 3
    /\ gl.idats[1] = 4095 /\ gl.idats[2] = 291
    /\ grid.values[1] = MISSING
    /\ grid.values[2] = gr_file.reference + 291 * gr_file.scale
    /\ grid.values[3] = gr_file.reference + gl.idats[3] * gr_file.scale
    /\ gl.idats[3] >= 1104

\* C14: a cell whose packing code is 2 (nmc), 5 (grib2) or outside 0..5
\* fails with the unsupported-codec error and returns neither a field nor
\* "no data"; codes 0, 1, 3 and 4 never produce that error.
C14_UnsupportedCodec ==
    (unit = "grid" /\ GridReturned)
    => /\ (gr_file.packing_code \in UnsupportedCodes \cup UnknownCodes)
            => gr_pc = "error" /\ gr_err = "NotImplementedError"
       /\ (gr_file.packing_code \in NoneCodes \cup PackedCodes)
            => gr_err # "NotImplementedError"

\* ---- the diff codec, stated over the fields of the cells decoded so far
DiffMissing(k) == gr_file.missing_flag # 0 /\ gl.idats[k + 1] = Pow2(gr_file.bits) - 1
RowOf(k) == k \div kx
FirstOfGrid(k) == ~DiffMissing(k) /\ \A m \in 0 .. k - 1 : DiffMissing(m)
FirstOfRow(k) ==
    ~DiffMissing(k) /\ \A m \in 0 .. k - 1 : RowOf(m) = RowOf(k) => DiffMissing(m)
\* the latest cell before k that satisfies P (-1 when there is none)
Latest(k, P(_)) ==
    IF \E m \in 0 .. k - 1 : P(m)
    THEN CHOOSE m \in 0 .. k - 1 : P(m) /\ \A n \in m + 1 .. k - 1 : ~P(n)
    ELSE -1
Present_(m) == ~DiffMissing(m)
DiffStep(k) == gr_file.diffmin + gl.idats[k + 1] * gr_file.scale

RECURSIVE DiffExpected(_)
DiffExpected(k) ==
    IF DiffMissing(k) THEN MISSING
    ELSE IF FirstOfGrid(k) THEN gr_file.reference
    ELSE IF FirstOfRow(k) THEN DiffExpected(Latest(k, FirstOfRow)) + DiffStep(k)
    ELSE DiffExpected(Latest(k, Present_)) + DiffStep(k)

\* C20: in the diff codec with lendat > 1, scanning row-major, the first
\* non-missing cell of the grid is the reference and seeds both
\* accumulators; the first non-missing cell of a later row is the row-start
\* accumulator + diffmin + field * scale and becomes the row-start
\* accumulator; any other non-missing cell is the previous-cell accumulator
\* + diffmin + field * scale; every non-missing cell becomes the
\* previous-cell accumulator; a missing cell is the missing float and
\* leaves both accumulators as they are.
C20_DiffAccumulators ==
    (unit = "grid" /\ gr_file.packing_code = 3
        /\ gr_pc \in {"cells", "mask", "done"} /\ Lendat > 1)
    => /\ \A k \in Decoded : grid.values[RowOf(k)][k % kx] = DiffExpected(k)
       /\ (\E k \in Decoded : ~DiffMissing(k))
            => /\ gl.psav = DiffExpected(Latest(gl.cell, Present_))
               /\ gl.plin = DiffExpected(Latest(gl.cell, FirstOfRow))

\* a 2 x 2 grid of fields 15, 3, 15, 5 with the missing flag set: the first
\* row starts with a missing cell, the second row's first non-missing cell
\* is its second cell
C20_Witness ==
    /\ unit = "grid"
    /\ gr_pc = "done"
    /\ gr_file.packing_code = 3
    /\ kx = 2 /\ ky = 2
    /\ gr_file.missing_flag = 1
    /\ gr_file.scale = 2 /\ gr_file.diffmin = -5
    /\ gl.idats = <<15, 3, 15, 5>>
    /\ gr_data[0][0] = MISSING
    /\ gr_data[0][1] = gr_file.reference
    /\ gr_data[1][0] = MISSING
    /\ gr_data[1][1] = gr_file.reference - 5 + 5 * 2

\* ---- the merge, stated over the parts of the sounding
TTAARows == IF "TTAA" \in DOMAIN parts THEN Len(parts["TTAA"]["PRES"]) ELSE 0
OthersPresent == \A n \in PartNames \ {"TTAA"} : n \in DOMAIN parts
SurfaceFields == {"PRES", "TEMP", "DWPT", "DRCT", "SPED"}

\* C15: level 0 is seeded without failing whichever parts are present: with
\* TTAA absent or empty the five fields PRES, TEMP, DWPT, DRCT, SPED of
\* level 0 are missing and the merge runs on to completion, with TTAA
\* present level 0 is its first entry, and HGHT[0] is the station elevation
\* before the surface is validated.
C15_SeedSurface ==
    (unit = "merge" /\ OthersPresent)
    => /\ (mg_pc = "first_man")
            => /\ merged.HGHT[1] = merged.SELV
               /\ \A f \in SurfaceFields :
                     merged[f][1] = IF TTAARows = 0 THEN MISSING
                                    ELSE parts["TTAA"][f][1]
       /\ (TTAARows = 0) => mg_pc # "error"

\* the first entry of TTAA after the surface entry whose pressure,
\* temperature and height are present (0 when there is none)
FirstValidMan ==
    LET ok(k) == /\ parts["TTAA"]["PRES"][k + 1] # MISSING
                 /\ parts["TTAA"]["TEMP"][k + 1] # MISSING
                 /\ parts["TTAA"]["HGHT"][k + 1] # MISSING
    IN  IF \E k \in 1 .. TTAARows - 1 : ok(k)
        THEN CHOOSE k \in 1 .. TTAARows - 1 : ok(k) /\ \A j \in 1 .. k - 1 : ~ok(j)
        ELSE 0

\* level 0 as the seed left it
SeededSurface(f) ==
    IF f = "HGHT" THEN merged.SELV
    ELSE IF TTAARows = 0 THEN MISSING ELSE parts["TTAA"][f][1]

\* C16: after the surface validation all six fields of level 0 are missing
\* if the seeded surface pressure exceeds 1060, is missing, or is less than
\* the pressure of the first valid mandatory level above the surface entry;
\* otherwise level 0 is as the seed left it.
C16_SurfaceValidation ==
    (unit = "merge" /\ mg_pc = "sigt_sfc")
    => LET p == SeededSurface("PRES")
           rejected == \/ p > 1060
                       \/ p = MISSING
                       \/ (FirstValidMan > 0
                             /\ p < parts["TTAA"]["PRES"][FirstValidMan + 1])
       IN  \A f \in Fields :
              merged[f][1] = IF rejected THEN MISSING ELSE SeededSurface(f)

\* the entries the append step offers: TTAA after its surface entry, then
\* every entry of TTCC
ManEntries ==
    (IF TTAARows >= 1
     THEN [k \in 1 .. TTAARows - 1 |-> [main |-> TRUE, row |-> Row(parts["TTAA"], k)]]
     ELSE <<>>)
    \o (IF "TTCC" \in DOMAIN parts /\ Len(parts["TTCC"]["PRES"]) >= 1
        THEN [k \in 1 .. Len(parts["TTCC"]["PRES"]) |->
                 [main |-> FALSE, row |-> Row(parts["TTCC"], k - 1)]]
        ELSE <<>>)

\* the admitted pressures and the count of rejected TTAA entries, from
\* entry k on with plast the last admitted pressure
RECURSIVE Admit(_, _)
Admit(k, plast) ==
    IF k > Len(ManEntries) THEN [pres |-> <<>>, rejected |-> 0]
    ELSE LET e == ManEntries[k]
             ok == /\ e.row.PRES # MISSING /\ e.row.TEMP # MISSING
                   /\ e.row.HGHT # MISSING /\ e.row.PRES < plast
             rest == Admit(k + 1, IF ok THEN e.row.PRES ELSE plast)
         IN  [pres |-> IF ok THEN <<e.row.PRES>> \o rest.pres ELSE rest.pres,
              rejected |-> rest.rejected + (IF ~ok /\ e.main THEN 1 ELSE 0)]

\* C17: in the mandatory append step an entry of TTAA after its surface
\* entry, or any entry of TTCC, is appended exactly when its pressure,
\* temperature and height are present and its pressure is strictly less
\* than the last admitted pressure (the surface pressure, or 2000 when the
\* surface is missing); PRES[1:] is then strictly decreasing and the
\* rejection counter is the number of rejected TTAA entries.
C17_MandatoryAppend ==
    (unit = "merge" /\ mg_pc = "ppaa" /\ lv.i = 0)
    => LET a == Admit(1, IF merged.PRES[1] = MISSING THEN 2000 ELSE merged.PRES[1])
       IN  /\ Rest(merged.PRES) = a.pres
           /\ \A k \in 2 .. Len(merged.PRES) - 1 : merged.PRES[k] > merged.PRES[k + 1]
           /\ lv.bgl = a.rejected

\* what the mandatory wind merge makes of the profile mg for one entry
ManWindClaimed(mg, mg2, row) ==
    IF Has(Rest(mg.PRES), row.PRES)
    THEN LET loc == index(Rest(mg.PRES), row.PRES) + 2
         IN  mg2 = IF mg.DRCT[loc] = MISSING
                   THEN [mg EXCEPT !.DRCT[loc] = row.DRCT, !.SPED[loc] = row.SPED]
                   ELSE mg
    ELSE \E loc \in 1 .. Len(mg.PRES) :
            /\ \A k \in 2 .. loc : mg.PRES[k] > row.PRES
            /\ \A k \in loc + 1 .. Len(mg.PRES) : mg.PRES[k] < row.PRES
            /\ mg2 = insert_level(mg, loc,
                        [PRES |-> row.PRES, DRCT |-> row.DRCT, SPED |-> row.SPED,
                         TEMP |-> MISSING, DWPT |-> MISSING, HGHT |-> MISSING])

\* C18: in the mandatory wind merge (PPAA, then PPCC) an entry whose
\* pressure is that of a level above the surface fills DRCT and SPED of
\* that level only if its direction is missing and changes nothing else;
\* any other entry inserts exactly one level, where PRES[1:] stays
\* decreasing, with the entry's pressure and wind and with TEMP, DWPT and
\* HGHT missing at the same index.
C18_MandatoryWind ==
    [][(unit = "merge" /\ mg_pc \in {"ppaa", "ppcc"} /\ mg_pc' = mg_pc)
         => ManWindClaimed(merged, merged',
                Row(parts[IF mg_pc = "ppaa" THEN "PPAA" ELSE "PPCC"], lv.i))]_vars

\* the entries of TTAA after the surface entry that lie below the surface
BelowGroundRows ==
    {k \in 1 .. TTAARows - 1 : parts["TTAA"]["PRES"][k + 1] > merged.PRES[1]}

\* C19: when the final surface pressure is valid and a mandatory level was
\* rejected for a pressure greater than the surface pressure, the merge
\* completes without error whatever the other parts are, and every such
\* level is in the returned profile exactly once, its six values copied
\* verbatim at one common index.
C19_BelowGround ==
    (unit = "merge" /\ mg_pc \in {"bgl", "done", "error"}
        /\ merged.PRES # <<>> /\ merged.PRES[1] # MISSING
        /\ lv.bgl # Unbound /\ lv.bgl > 0 /\ BelowGroundRows # {})
    => /\ mg_err # "UnboundLocalError"
       /\ (mg_pc = "done")
            => \A k \in BelowGroundRows :
                  LET row == Row(parts["TTAA"], k)
                      at == {n \in 1 .. Len(merged.PRES) : merged.PRES[n] = row.PRES}
                  IN  /\ Cardinality(at) = 1
                      /\ \A n \in at : \A f \in Fields :
                            n <= Len(merged[f]) /\ merged[f][n] = row[f]

\* what the surface override is stated to make of the profile mg
SurfaceOverrideClaimed(mg) ==
    IF "TTBB" \in DOMAIN parts /\ Len(parts["TTBB"]["PRES"]) >= 1
    THEN LET ttbb == Row(parts["TTBB"], 0)
         IN  IF /\ ttbb.PRES # MISSING
                /\ ttbb.TEMP # MISSING
                /\ (mg.PRES[1] = MISSING \/ mg.PRES[1] = ttbb.PRES)
             THEN [mg EXCEPT !.PRES[1] = ttbb.PRES, !.TEMP[1] = ttbb.TEMP,
                             !.DWPT[1] = ttbb.DWPT]
             ELSE mg
    ELSE mg

\* C21: the surface-override step replaces PRES, TEMP and DWPT of level 0
\* by the first TTBB entry whenever TTBB has an entry whose first pressure
\* and temperature are present and the surface pressure is missing or
\* equal to that pressure, whether or not TTDD is present, and attempts
\* nothing (and so raises nothing) on an absent or empty TTBB.
C21_SurfaceOverride ==
    [][(unit = "merge" /\ mg_pc = "sigt_sfc")
         => /\ mg_pc' = "sigw_sfc"
            /\ merged' = SurfaceOverrideClaimed(merged)]_vars

\* the part read at pc, for the pressure-keyed loops
LoopPart ==
    CASE mg_pc = "ppaa" -> "PPAA" [] mg_pc = "ppcc" -> "PPCC"
      [] mg_pc = "trpa" -> "TRPA" [] mg_pc = "trpc" -> "TRPC"
      [] mg_pc = "ttbb" -> "TTBB" [] mg_pc = "ttdd" -> "TTDD"
      [] mg_pc = "ppbb" -> "PPBB" [] mg_pc = "ppdd" -> "PPDD"
      [] mg_pc = "mxwa" -> "MXWA" [] mg_pc = "mxwc" -> "MXWC"
      [] OTHER -> "TTAA"

\* the pressures of the tropopause entries processed before entry lv.i of
\* the part read at pc
TropProcessedBefore ==
    LET own == {abs(parts[LoopPart]["PRES"][k]) : k \in 1 .. lv.i}
        main == IF mg_pc = "trpc" /\ "TRPA" \in DOMAIN parts
                THEN {abs(parts["TRPA"]["PRES"][k]) :
                         k \in 1 .. Len(parts["TRPA"]["PRES"])}
                ELSE {}
    IN  own \cup main

\* C22: in the tropopause merge (TRPA, then TRPC) pbot never increases
\* from one processed entry to the next, and no entry is filled into or
\* inserted in the profile at a pressure greater than that of an entry
\* processed before it, also with missing pressures, missing temperatures
\* and zero pressures among the entries.
C22_PbotMonotone ==
    [][(unit = "merge" /\ mg_pc \in {"trpa", "trpc"} /\ mg_pc' = mg_pc
          /\ TropProcessedBefore # {})
         => /\ lv'.pbot <= lv.pbot
            /\ merged' # merged
                 => \A p \in TropProcessedBefore :
                       abs(Row(parts[LoopPart], lv.i).PRES) <= p]_vars

\* the pcs of the pressure-keyed merge loops
PressureKeyedPcs ==
    {"ppaa", "ppcc", "trpa", "trpc", "ttbb", "ttdd", "ppbb", "ppdd", "mxwa", "mxwc"}

\* C29: in the pressure-keyed merges (mandatory wind, tropopause,
\* significant temperature, significant wind, max wind) an entry whose
\* pressure is the missing sentinel creates no level and modifies none, so
\* that no level it leaves behind has PRES equal to the sentinel or to its
\* absolute value.
C29_MissingPressureInert ==
    [][(unit = "merge" /\ mg_pc \in PressureKeyedPcs /\ mg_pc' = mg_pc
          /\ Row(parts[LoopPart], lv.i).PRES = MISSING)
         => merged' = merged]_vars

\* C30: in the significant-temperature merge (TTBB, then TTDD) an entry
\* whose pressure is that of a profile level changes at most TEMP and DWPT
\* of that level, and only when its TEMP is missing; PRES, HGHT, DRCT and
\* SPED of the level, every other level and the length stay as they are,
\* for both parts alike.
C30_SigtMatchFrame ==
    [][(unit = "merge" /\ mg_pc \in {"ttbb", "ttdd"} /\ mg_pc' = mg_pc
          /\ Has(merged.PRES, abs(Row(parts[LoopPart], lv.i).PRES)))
         => LET row == Row(parts[LoopPart], lv.i)
                k == index(merged.PRES, abs(row.PRES)) + 1
            IN  \/ merged' = merged
                \/ /\ k <= Len(merged.TEMP)
                   /\ merged.TEMP[k] = MISSING
                   /\ merged' = [merged EXCEPT !.TEMP[k] = row.TEMP,
                                               !.DWPT[k] = row.DWPT]]_vars

\* the height-keyed scan has visited every entry it is stated to visit
ScanComplete ==
    IF lv.above THEN lv.i = lv.nasw
    ELSE lv.nasw = 0 /\ lv.i = lv.nsgw

\* C23: the height-keyed significant-wind merge does not fail when only one
\* of PPBB and PPDD carries heights, and unless the scan runs out of target
\* levels it ends only when every PPBB entry from the start index and then
\* every PPDD entry from index 0 has been visited, one entry per iteration,
\* also when PPBB is not height-based or has no entry after the start index.
C23_HeightScan ==
    [][(unit = "merge")
         => /\ (mg_pc = "zstart" /\ lv.ppbb_is_z # lv.ppdd_is_z) => mg_pc' # "error"
            /\ (mg_pc = "zloop" /\ mg_pc' = "logp_pressure" /\ lv.more)
                  => ScanComplete
            /\ (mg_pc = "zloop" /\ mg_pc' = "zloop")
                  => \/ lv'.above = lv.above /\ lv'.i = lv.i + 1
                     \/ ~lv.above /\ lv'.above /\ lv.i = lv.nsgw - 1 /\ lv'.i = 0]_vars

\* the source entry of the current iteration of the height-keyed loop
HeightSource == Row(parts[IF lv.above THEN "PPDD" ELSE "PPBB"], lv.i)

\* the levels at or above the cursor whose height is the source height
HeightMatches ==
    {k \in lv.ilev .. Len(merged.HGHT) :
        /\ k >= 1 /\ k <= Len(merged.DRCT) /\ k <= Len(merged.SPED)
        /\ merged.HGHT[k] # MISSING
        /\ abs(merged.HGHT[k] - HeightSource.HGHT) < 1}

\* the levels at or above the cursor after which the source height lies,
\* at least 1 unit from the level and from the next one
HeightGaps ==
    {k \in lv.ilev .. Len(merged.HGHT) - 1 :
        /\ k >= 1
        /\ merged.HGHT[k] # MISSING /\ merged.HGHT[k + 1] # MISSING
        /\ merged.HGHT[k] + 1 <= HeightSource.HGHT
        /\ HeightSource.HGHT + 1 <= merged.HGHT[k + 1]}

\* C24: in the height-keyed merge, while the scan has target levels left,
\* a source height within 1 unit of a level's height creates no level and
\* its wind is written to that level exactly when DRCT or SPED of that
\* level is missing; a source height between two consecutive target
\* heights, 1 unit or more from both, inserts one level with that height
\* and wind and with PRES, TEMP and DWPT missing.
C24_HeightMatchOrInsert ==
    [][(unit = "merge" /\ mg_pc = "zloop" /\ mg_pc' = "zloop" /\ lv'.more
          /\ HeightSource.HGHT # MISSING)
         => /\ \A k \in HeightMatches :
                  merged' = IF merged.DRCT[k] = MISSING \/ merged.SPED[k] = MISSING
                            THEN [merged EXCEPT !.DRCT[k] = HeightSource.DRCT,
                                                !.SPED[k] = HeightSource.SPED]
                            ELSE merged
            /\ \A k \in HeightGaps :
                  merged' = insert_level(merged, k,
                               [HGHT |-> HeightSource.HGHT, DRCT |-> HeightSource.DRCT,
                                SPED |-> HeightSource.SPED, PRES |-> MISSING,
                                TEMP |-> MISSING, DWPT |-> MISSING])]_vars

\* C28: at the start of every iteration of the height-keyed loop in which
\* the scan is active the cursor agrees with the profile: HGHT[ilev] is
\* znxt, HGHT[ilev - 1] is zold and size is the length of HGHT, also after
\* the loop has inserted levels.
C28_CursorConsistent ==
    (unit = "merge" /\ mg_pc = "zloop" /\ lv.more /\ lv.i < lv.iend)
    => /\ lv.ilev >= 1 /\ lv.ilev + 1 <= Len(merged.HGHT)
       /\ merged.HGHT[lv.ilev + 1] = lv.znxt
       /\ merged.HGHT[lv.ilev] = lv.zold
       /\ lv.size = Len(merged.HGHT)

\* ---- _convert_ftime

\* C25: for every packed forecast time kind*100000 + hours*100 + minutes
\* with kind in 0..3, hours >= 0 and 0 <= minutes < 100, zero included, the
\* decoder returns the pair of the kind's name and the duration of hours
\* hours and minutes minutes, and the column's valid time is computed as
\* the initial time plus that duration.
C25_ForecastTime ==
    (unit = "ftime" /\ ft_pc \in {"converted", "done", "error"})
    => /\ ft_pc # "error"
       /\ GTM1 = Pair(ForecastType[ft_written.kind],
                      timedelta(ft_written.hours, ft_written.minutes))
       /\ ft_pc = "done"
            => valid = GDT1 + timedelta(ft_written.hours, ft_written.minutes)

\* ---- the data pointer of a cell

\* the slots of a one-key table that are in use and hold the header h
SlotsOf(table, nslots, h) ==
    {s \in 0 .. nslots - 1 :
        table[2 * s + 1] = USED_FLAG /\ <<table[2 * s + 2]>> = h}

\* C26: for every emitted row header, column header and part p the data
\* pointer word read for the cell is the word at data_block_ptr +
\* r*columns*parts + c*parts + p, r and c being the slot positions of the
\* row and the column in the header tables, also when unused slots precede
\* used ones.
C26_CellPointer ==
    [][(unit = "cells" /\ ce_pc = "cells")
         => \A r \in SlotsOf(ce_file.row_table, ce_file.rows, row_headers[cur.irow + 1]),
               c \in SlotsOf(ce_file.column_table, ce_file.columns,
                             column_headers[cur.icol + 1]) :
               LET at == ce_file.data_block_ptr + r * ce_file.columns * ce_file.parts
                            + c * ce_file.parts + cur.iprt
               IN  pointer' = at /\ data_ptr' = PointerWord(at)]_vars

\* ---- the parameter table

\* the parameter table the content of the archive describes: names as
\* text, one entry per parameter
ExpectedParameters ==
    [n \in 1 .. Len(pa_content) |->
        [attr \in {"name", "scale", "offset", "bits"} |->
            [k \in 1 .. Len(pa_content[n]) |->
                IF attr = "name" THEN Str(pa_content[n][k].name)
                ELSE pa_content[n][k][attr]]]]

\* C27: the decoded parameter table does not depend on the byte order of
\* the file: an archive and its byte-swapped twin give for every part the
\* same names, each decoded to text and one per parameter, and the same
\* scales, offsets and bit widths.
C27_ParametersByteOrder ==
    (unit = "params" /\ \A o \in Orders : twin[o].pc = "done")
    => /\ twin["little"].parameters = twin["big"].parameters
       /\ \A o \in Orders : twin[o].parameters = ExpectedParameters

====
